---- MODULE Spec2Model ----
(***************************************************************************)
(* CFDP Copy File procedure of tmtccmd: the sending state machine          *)
(* (tmtccmd/cfdp/handler/source.py, SourceHandler) and the receiving state *)
(* machine (tmtccmd/cfdp/handler/dest.py, DestHandler), driven by a host.  *)
(* Every public method is one action.  A method that raises leaves the     *)
(* assignments made before the raise in place and records the exception    *)
(* in `result`.                                                            *)
(***************************************************************************)
EXTENDS Integers, Sequences, FiniteSets, TLC

(* ------------------------------ bounds --------------------------------- *)
\* largest source file, in bytes
MaxFileSize == 4
\* largest max_file_segment_len of a remote entity configuration
MaxSegLen == 3
\* largest number of PDUs kept in the source handler's receive queue
MaxQueue == 1
\* largest value the sequence number provider's counter reaches
MaxSeqCount == 12
\* largest number of transactions the host starts
MaxTransactions == 2
\* largest number of PDUs in the receive queue of the source handler whose
\* host hands over every kind of PDU
MaxInbox == 3
\* largest number of PDUs the receiving host hands to DestHandler.pass_packet
MaxDestPdus == 4
\* largest number of indications the DestHandler's user has got when the
\* receiving host calls state_machine
MaxDestIndications == 6

(* --------------------------- value domains ----------------------------- *)
\* the byte values source files are made of
ByteVals == {0, 255}

\* spacepackets.cfdp.TransmissionModes; "NONE" is Python's None
TransmissionModes == {"ACKNOWLEDGED", "UNACKNOWLEDGED"}

\* spacepackets.cfdp.ChecksumTypes; "MODULAR" stands for the types
\* calc_cfdp_file_crc does not implement
ChecksumTypes == {"CRC_32", "CRC_32C", "MODULAR"}

\* all byte strings of length 0..n over ByteVals
RECURSIVE FilesUpTo(_)
FilesUpTo(n) ==
    IF n = 0 THEN {<< >>}
    ELSE LET shorter == FilesUpTo(n - 1)
         IN  shorter \cup {Append(f, b) : f \in {g \in shorter : Len(g) = n - 1}, b \in ByteVals}

\* one byte string of every length 0..n: 255, 0, 255, 0, ...
PatternFiles(n) == { [i \in 1..k |-> IF i % 2 = 1 THEN 255 ELSE 0] : k \in 0..n }

Min(a, b) == IF a < b THEN a ELSE b

\* PduHolder(None).base
NoPdu == [pdu_type |-> "NONE"]

\* an UnsignedByteField: a value with its declared width in bytes
ByteField(byte_len, value) == [byte_len |-> byte_len, value |-> value]

(* ------------------------------ checksum ------------------------------- *)
\* a 32 bit register is a tuple of bits, bit i of the number at index i + 1
AllOnes == <<1, 1, 1, 1, 1, 1, 1, 1, 1, 1, 1, 1, 1, 1, 1, 1,
             1, 1, 1, 1, 1, 1, 1, 1, 1, 1, 1, 1, 1, 1, 1, 1>>

\* reflected CRC-32 (ISO-HDLC) polynomial 0xEDB88320
PolyCrc32 == <<0, 0, 0, 0, 0, 1, 0, 0, 1, 1, 0, 0, 0, 0, 0, 1,
               0, 0, 0, 1, 1, 1, 0, 1, 1, 0, 1, 1, 0, 1, 1, 1>>

\* reflected CRC-32C (Castagnoli) polynomial 0x82F63B78
PolyCrc32c == <<0, 0, 0, 1, 1, 1, 1, 0, 1, 1, 0, 1, 1, 1, 0, 0,
                0, 1, 1, 0, 1, 1, 1, 1, 0, 1, 0, 0, 0, 0, 0, 1>>

Pow2(n) == IF n = 0 THEN 1 ELSE IF n = 1 THEN 2 ELSE IF n = 2 THEN 4
           ELSE IF n = 3 THEN 8 ELSE IF n = 4 THEN 16 ELSE IF n = 5 THEN 32
           ELSE IF n = 6 THEN 64 ELSE 128

\* bitwise exclusive or of two registers (SubSeq yields the tuple of the bits)
Xor32(a, b) == SubSeq([i \in 1..32 |-> (a[i] + b[i]) % 2], 1, 32)

\* the register shifted right by one bit
ShiftRight1(a) == Tail(a) \o <<0>>

\* a byte as a register: its eight bits, then zeros
ByteBits(b) == SubSeq([i \in 1..32 |-> IF i <= 8 THEN (b \div Pow2(i - 1)) % 2 ELSE 0], 1, 32)

RECURSIVE CrcShift(_, _, _)
CrcShift(reg, poly, n) ==
    IF n = 0 THEN reg
    ELSE IF reg[1] = 1
    THEN CrcShift(Xor32(ShiftRight1(reg), poly), poly, n - 1)
    ELSE CrcShift(ShiftRight1(reg), poly, n - 1)

\* crc_obj.update(data): feed the bytes of one chunk to the running register
RECURSIVE CrcUpdate(_, _, _)
CrcUpdate(reg, poly, data) ==
    IF data = << >> THEN reg
    ELSE CrcUpdate(CrcShift(Xor32(reg, ByteBits(Head(data))), poly, 8), poly, Tail(data))

\* crc_obj.digest(): the final xor, as four bytes, most significant first
CrcDigest(reg) ==
    LET out == Xor32(reg, AllOnes)
        ByteAt(k) == out[8 * k + 1] + 2 * out[8 * k + 2] + 4 * out[8 * k + 3]
                     + 8 * out[8 * k + 4] + 16 * out[8 * k + 5] + 32 * out[8 * k + 6]
                     + 64 * out[8 * k + 7] + 128 * out[8 * k + 8]
    IN  <<ByteAt(3), ByteAt(2), ByteAt(1), ByteAt(0)>>

\* spacepackets.cfdp.NULL_CHECKSUM_U32
NULL_CHECKSUM_U32 == <<0, 0, 0, 0>>

(* --------------------- program state and its observers ----------------- *)
VARIABLES
    \* SourceHandler.states (SourceStateWrapper)
    state, step, packet_ready,
    \* SourceHandler.params (TransferFieldWrapper): fp, transaction, remote_cfg, _pdu_conf
    fp, transaction, remote_cfg, pdu_conf,
    \* SourceHandler.pdu_wrapper.base, ._current_req, ._rec_queue
    pdu_wrapper, current_req, rec_queue,
    \* whether the PDU in the holder was constructed with the PduConfig object
    \* that params._pdu_conf is now (pdu_conf=self.params.pdu_conf)
    pdu_conf_in_holder,
    \* the counter of SourceHandler.seq_num_provider and its max_bit_width
    seq_count, max_bit_width,
    \* SourceHandler.cfg (LocalEntityCfg): local_entity_id and indication_cfg
    local_entity_id, indication_cfg,
    \* the filestore: content of the source file (or Missing),
    \* and the remote entity configuration the MIB holds for the destination
    source_file, mib,
    \* what the user and the host observe: the indications raised, the PDUs the
    \* driven host took from the holder and the reads requested since the last
    \* start_transaction,
    \* the outcome of the last public call (its return value, or the exception
    \* and the method that raised it), and the number of transactions started
    indications, emitted, reads, result, started

srcVars == <<state, step, packet_ready, fp, transaction, remote_cfg, pdu_conf,
             pdu_wrapper, current_req, rec_queue, seq_count, pdu_conf_in_holder>>
VARIABLES
    \* RemoteEntityTable._remote_entity_dict of the table the CfdpHandler is
    \* constructed with: the items of the dict in insertion order
    remote_entity_dict,
    \* CfdpHandler._request_wrapper.base
    request_wrapper,
    \* what the host observes of the table and of the CfdpHandler: the calls of
    \* add_remote_entity, get_remote_entity and start_put_request with their
    \* arguments and what they returned or raised
    mib_calls

mibVars == <<remote_entity_dict, request_wrapper, mib_calls>>
envVars == <<max_bit_width, local_entity_id, indication_cfg, source_file, mib, mibVars>>
obsVars == <<indications, emitted, reads, result, started>>

VARIABLES
    \* the DestHandler of the receiving entity: its fields, as one record
    dest,
    \* cfg.indication_cfg of the receiving entity
    dest_indication_cfg,
    \* the destination file in the receiving entity's filestore
    dest_file,
    \* the indications the DestHandler has raised at its user
    dest_indications,
    \* the PDUs the host has sent and the receiving entity has not yet got
    link

destVars == <<dest, dest_indication_cfg, dest_file, dest_indications, link>>

\* a file of the filestore: whether the path exists, and its bytes
FileOf(data) == [exists |-> TRUE, data |-> data]

\* the source file does not exist
Missing == [exists |-> FALSE, data |-> << >>]

\* FileParams(): offset = 0, segment_len = 0, crc32 = bytes(), size = 0
FileParamsEmpty == [offset |-> 0, segment_len |-> 0, crc32 |-> << >>, size |-> 0]

\* spacepackets PduConfig.empty()
PduConfigEmpty ==
    [source_entity_id |-> ByteField(1, 0), dest_entity_id |-> ByteField(1, 0),
     transaction_seq_num |-> ByteField(1, 0), trans_mode |-> "ACKNOWLEDGED",
     crc_flag |-> FALSE, direction |-> "TOWARDS_RECEIVER",
     seg_ctrl |-> "NO_RECORD_BOUNDARIES_PRESERVATION"]

\* Python's None for an optional object
None == [none |-> TRUE]

\* whether the object obj has the attribute name; reading an attribute an
\* object does not have raises AttributeError
HasAttr(obj, name) == name \in DOMAIN obj

\* RemoteEntityTable.__init__ and CfdpHandler.__init__: an empty dict, no
\* request, nothing called
MibInit ==
    /\ remote_entity_dict = << >>
    /\ request_wrapper = None
    /\ mib_calls = << >>

(* ------------------------------ filestore ------------------------------ *)
\* vfs.read_from_opened_file(of, offset, read_len): seek to offset and read
\* read_len bytes; a read that reaches past the end either returns the bytes
\* that are left (short read) or fails with IoError
ReadFromOpenedFile(file, offset, read_len, short) ==
    IF offset + read_len <= Len(file)
    THEN [ok |-> TRUE, data |-> SubSeq(file, offset + 1, offset + read_len)]
    ELSE IF short
         THEN [ok |-> TRUE, data |-> SubSeq(file, offset + 1, Len(file))]
         ELSE [ok |-> FALSE, data |-> << >>]

(* -------------------------- SourceHandler ------------------------------ *)
\* read_len of calc_crc_for_file_crcmod for the chunk at current_offset
CrcReadLen(current_offset, file_sz, segment_len) ==
    IF file_sz < segment_len THEN file_sz
    ELSE LET next_offset == current_offset + segment_len
         IN  IF next_offset > file_sz THEN next_offset % file_sz ELSE segment_len

\* read_len of _prepare_next_file_data_pdu for the segment at fp.offset
ReadLen(offset, size, segment_len) ==
    IF size < segment_len THEN size
    ELSE LET next_offset == offset + segment_len
         IN  IF next_offset > size THEN next_offset % size ELSE segment_len

\* The while loop of calc_crc_for_file_crcmod.  current_offset never
\* decreases, so once it has passed file_sz, or once a chunk has length 0,
\* the exit test current_offset == file_sz is false in every later
\* iteration: the loop, and with it the call, never returns ("NoReturn").
RECURSIVE CrcLoop(_, _, _, _, _, _, _, _)
CrcLoop(reg, poly, file, file_sz, segment_len, short, current_offset, rd) ==
    IF current_offset = file_sz
    THEN [outcome |-> "ok", digest |-> CrcDigest(reg), reads |-> rd]
    ELSE IF current_offset > file_sz
    THEN [outcome |-> "NoReturn", digest |-> << >>, reads |-> rd]
    ELSE LET read_len == CrcReadLen(current_offset, file_sz, segment_len)
             chunk == ReadFromOpenedFile(file, current_offset, read_len, short)
             rd2 == rd \cup {[op |-> "crc", offset |-> current_offset, read_len |-> read_len]}
         IN  IF read_len <= 0
             THEN [outcome |-> "NoReturn", digest |-> << >>, reads |-> rd]
             ELSE IF ~chunk.ok
             THEN [outcome |-> "IoError", digest |-> << >>, reads |-> rd2]
             ELSE CrcLoop(CrcUpdate(reg, poly, chunk.data), poly, file, file_sz,
                          segment_len, short, current_offset + read_len, rd2)

\* calc_crc_for_file_crcmod(crc_obj, file, file_sz, segment_len)
calc_crc_for_file_crcmod(poly, file, file_sz, segment_len, short) ==
    IF ~file.exists
    THEN [outcome |-> "SourceFileDoesNotExist", digest |-> << >>, reads |-> {}]
    ELSE CrcLoop(AllOnes, poly, file.data, file_sz, segment_len, short, 0, {})

\* calc_cfdp_file_crc(crc_type, file, file_sz, segment_len)
calc_cfdp_file_crc(crc_type, file, file_sz, segment_len, short) ==
    IF crc_type = "CRC_32"
    THEN calc_crc_for_file_crcmod(PolyCrc32, file, file_sz, segment_len, short)
    ELSE IF crc_type = "CRC_32C"
    THEN calc_crc_for_file_crcmod(PolyCrc32c, file, file_sz, segment_len, short)
    ELSE [outcome |-> "ChecksumNotImplemented", digest |-> << >>, reads |-> {}]

\* the handler's mutable fields and the observers, as one value the methods
\* transform; done is set once the running call has returned or raised
Cur ==
    [state |-> state, step |-> step, packet_ready |-> packet_ready, fp |-> fp,
     transaction |-> transaction, remote_cfg |-> remote_cfg, pdu_conf |-> pdu_conf,
     pdu_wrapper |-> pdu_wrapper, current_req |-> current_req,
     rec_queue |-> rec_queue, seq_count |-> seq_count,
     pdu_conf_in_holder |-> pdu_conf_in_holder, eof_pdu_checks |-> FALSE,
     indications |-> indications, emitted |-> emitted, reads |-> reads,
     result |-> "ok", done |-> FALSE]

\* the call raises exc: the assignments made so far stay
Raise(h, exc) == [h EXCEPT !.result = exc, !.done = TRUE]

\* the call returns
Return(h) == [h EXCEPT !.done = TRUE]

\* seq_num_provider.get_and_increment(): the counter after the call; it wraps
\* at the provider's width (only the 8 bit limit is below the counter's bound)
get_and_increment(count, width) ==
    IF width = 8 THEN (count + 1) % 256 ELSE count + 1

\* _get_next_transfer_seq_num: takes the next number from the provider, then
\* checks the provider's width
get_next_transfer_seq_num(h, width) ==
    LET next_seq_num == h.seq_count
        h1 == [h EXCEPT !.seq_count = get_and_increment(h.seq_count, width)]
    IN  IF width \notin {8, 16, 32}
        THEN [h |-> Raise(h1, "ValueError"), field |-> ByteField(0, 0)]
        ELSE [h |-> h1, field |-> ByteField(width \div 8, next_seq_num)]

\* TransferFieldWrapper.reset that leaves FileParams as they are
params_reset_keeps_fp(h) ==
    [h EXCEPT !.remote_cfg = None, !.transaction = None, !.pdu_conf = PduConfigEmpty,
              !.pdu_conf_in_holder = FALSE]

\* TransferFieldWrapper.reset
params_reset(h) ==
    [h EXCEPT !.fp = FileParamsEmpty, !.remote_cfg = None, !.transaction = None,
              !.pdu_conf = PduConfigEmpty, !.pdu_conf_in_holder = FALSE]

\* reset that leaves the step where it is
reset_keeps_step(h) == params_reset([h EXCEPT !.state = "IDLE"])

\* SourceHandler.reset
reset(h) == params_reset([h EXCEPT !.step = "IDLE", !.state = "IDLE"])

\* _transaction_start that takes the sequence number before it looks for the
\* source file
transaction_start_seq_num_first(h, file, width, local_id) ==
    LET g == get_next_transfer_seq_num(h, width)
    IN  IF g.h.done THEN g.h
        ELSE IF ~file.exists THEN Raise(g.h, "SourceFileDoesNotExist")
        ELSE LET tid == [source_entity_id |-> local_id, seq_num |-> g.field]
             IN  [g.h EXCEPT !.fp.size = Len(file.data),
                             !.fp.segment_len = h.remote_cfg.max_file_segment_len,
                             !.transaction = tid,
                             !.indications = Append(@, [name |-> "transaction_indication",
                                                        transaction_id |-> tid])]

\* _transaction_start(put_req)
transaction_start(h, file, width, local_id) ==
    IF ~file.exists THEN Raise(h, "SourceFileDoesNotExist")
    ELSE IF h.remote_cfg = None
    THEN Raise([h EXCEPT !.fp.size = Len(file.data)], "AttributeError")
    ELSE LET h1 == [h EXCEPT !.fp.size = Len(file.data),
                             !.fp.segment_len = h.remote_cfg.max_file_segment_len]
             g == get_next_transfer_seq_num(h1, width)
             tid == [source_entity_id |-> local_id, seq_num |-> g.field]
         IN  IF g.h.done THEN g.h
             ELSE [g.h EXCEPT !.transaction = tid,
                              !.indications = Append(@, [name |-> "transaction_indication",
                                                         transaction_id |-> tid])]

\* _prepare_metadata_pdu(put_req)
prepare_metadata_pdu(h, put_req) ==
    IF h.packet_ready THEN Raise(h, "PacketSendNotConfirmed")
    ELSE IF h.remote_cfg = None
    THEN Raise([h EXCEPT !.pdu_conf.seg_ctrl = put_req.seg_ctrl,
                         !.pdu_conf.dest_entity_id = put_req.destination_id],
               "AttributeError")
    ELSE IF h.transaction = None
    THEN Raise([h EXCEPT !.pdu_conf.seg_ctrl = put_req.seg_ctrl,
                         !.pdu_conf.dest_entity_id = put_req.destination_id,
                         !.pdu_conf.crc_flag = h.remote_cfg.crc_on_transmission,
                         !.pdu_conf.direction = "TOWARDS_RECEIVER"],
               "AttributeError")
    ELSE IF ~HasAttr(h.remote_cfg, "closure_requested")
    THEN Raise([h EXCEPT !.pdu_conf.seg_ctrl = put_req.seg_ctrl,
                         !.pdu_conf.dest_entity_id = put_req.destination_id,
                         !.pdu_conf.crc_flag = h.remote_cfg.crc_on_transmission,
                         !.pdu_conf.direction = "TOWARDS_RECEIVER",
                         !.pdu_conf.transaction_seq_num = h.transaction.seq_num],
               "AttributeError")
    ELSE LET conf == [h.pdu_conf EXCEPT !.seg_ctrl = put_req.seg_ctrl,
                                        !.dest_entity_id = put_req.destination_id,
                                        !.crc_flag = h.remote_cfg.crc_on_transmission,
                                        !.direction = "TOWARDS_RECEIVER",
                                        !.transaction_seq_num = h.transaction.seq_num]
             pdu == [pdu_type |-> "METADATA", pdu_conf |-> conf,
                     dest_file_name |-> put_req.dest_file,
                     source_file_name |-> put_req.source_file,
                     checksum_type |-> h.remote_cfg.crc_type,
                     closure_requested |-> h.remote_cfg.closure_requested,
                     file_size |-> h.fp.size]
         IN  [h EXCEPT !.pdu_conf = conf, !.pdu_wrapper = pdu, !.pdu_conf_in_holder = TRUE,
                      !.emitted = Append(@, pdu)]

\* _prepare_next_file_data_pdu(request): prepared tells whether a PDU was placed
prepare_next_file_data_pdu(h, file, short, width) ==
    IF h.fp.size = 0 THEN [h |-> h, prepared |-> FALSE]
    ELSE IF ~file.exists THEN [h |-> Raise(h, "FileNotFoundError"), prepared |-> FALSE]
    ELSE IF h.fp.offset = h.fp.size THEN [h |-> h, prepared |-> FALSE]
    ELSE IF h.packet_ready
    THEN [h |-> Raise(h, "PacketSendNotConfirmed"), prepared |-> FALSE]
    ELSE LET read_len == ReadLen(h.fp.offset, h.fp.size, h.fp.segment_len)
             file_data == ReadFromOpenedFile(file.data, h.fp.offset, read_len, short)
             h1 == [h EXCEPT !.reads = @ \cup {[op |-> "file_data", offset |-> h.fp.offset,
                                               read_len |-> read_len]}]
             g == get_next_transfer_seq_num(h1, width)
             conf == [h.pdu_conf EXCEPT !.transaction_seq_num = g.field]
             pdu == [pdu_type |-> "FILE_DATA", pdu_conf |-> conf,
                     file_data |-> file_data.data, offset |-> h.fp.offset,
                     segment_metadata_flag |-> FALSE]
         IN  IF ~file_data.ok THEN [h |-> Raise(h1, "IoError"), prepared |-> FALSE]
             ELSE IF g.h.done THEN [h |-> g.h, prepared |-> FALSE]
             ELSE [h |-> [g.h EXCEPT !.pdu_conf = conf, !.fp.offset = @ + read_len,
                                     !.pdu_wrapper = pdu, !.pdu_conf_in_holder = TRUE,
                      !.emitted = Append(@, pdu)],
                   prepared |-> TRUE]

\* _prepare_eof_pdu()
prepare_eof_pdu(h) ==
    IF h.packet_ready THEN Raise(h, "PacketSendNotConfirmed")
    ELSE IF h.eof_pdu_checks /\ Len(h.fp.crc32) # 4 THEN Raise(h, "ValueError")
    ELSE LET pdu == [pdu_type |-> "EOF", pdu_conf |-> h.pdu_conf,
                     condition_code |-> "NO_ERROR",
                     file_checksum |-> h.fp.crc32, file_size |-> h.fp.size]
         IN  [h EXCEPT !.pdu_wrapper = pdu, !.pdu_conf_in_holder = TRUE,
                      !.emitted = Append(@, pdu)]

\* the CRC_PROCEDURE step without the branch for the empty file
crc_procedure_no_null_checksum(h, file, short) ==
    LET c == calc_cfdp_file_crc(h.remote_cfg.crc_type, file, h.fp.size,
                                h.fp.segment_len, short)
        h1 == [h EXCEPT !.reads = @ \cup c.reads]
    IN  IF c.outcome # "ok" THEN Raise(h1, c.outcome)
        ELSE [h1 EXCEPT !.fp.crc32 = c.digest, !.step = "SENDING_METADATA"]

\* the CRC_PROCEDURE step that goes back to the start of the transaction when
\* the checksum cannot be computed
crc_procedure_restarting(h, file, short) ==
    IF h.fp.size = 0
    THEN [h EXCEPT !.fp.crc32 = NULL_CHECKSUM_U32, !.step = "SENDING_METADATA"]
    ELSE LET c == calc_cfdp_file_crc(h.remote_cfg.crc_type, file, h.fp.size,
                                     h.fp.segment_len, short)
             h1 == [h EXCEPT !.reads = @ \cup c.reads]
         IN  IF c.outcome # "ok" THEN Raise([h1 EXCEPT !.step = "TRANSACTION_START"], c.outcome)
             ELSE [h1 EXCEPT !.fp.crc32 = c.digest, !.step = "SENDING_METADATA"]

\* the CRC_PROCEDURE step of state_machine
crc_procedure(h, file, short) ==
    IF h.fp.size = 0
    THEN [h EXCEPT !.fp.crc32 = NULL_CHECKSUM_U32, !.step = "SENDING_METADATA"]
    ELSE IF h.remote_cfg = None THEN Raise(h, "AttributeError")
    ELSE LET c == calc_cfdp_file_crc(h.remote_cfg.crc_type, file, h.fp.size,
                                     h.fp.segment_len, short)
             h1 == [h EXCEPT !.reads = @ \cup c.reads]
         IN  IF c.outcome # "ok" THEN Raise(h1, c.outcome)
             ELSE [h1 EXCEPT !.fp.crc32 = c.digest, !.step = "SENDING_METADATA"]

\* the NOTICE_OF_COMPLETION step of state_machine
notice_of_completion(h) ==
    IF h.remote_cfg = None THEN Raise(h, "AttributeError")
    ELSE IF ~HasAttr(h.remote_cfg, "closure_requested") THEN Raise(h, "AttributeError")
    ELSE IF h.remote_cfg.closure_requested
    THEN IF h.rec_queue = << >> THEN Raise(h, "IndexError") ELSE h
    ELSE reset([h EXCEPT !.indications =
                   Append(@, [name |-> "transaction_finished_indication",
                              transaction_id |-> h.transaction,
                              condition_code |-> "NO_ERROR",
                              file_status |-> "FILE_STATUS_UNREPORTED",
                              delivery_code |-> "DATA_COMPLETE"])])

\* state_machine, step IDLE: the transaction begins
sm_idle(h) ==
    IF h.step = "IDLE" THEN [h EXCEPT !.step = "TRANSACTION_START"] ELSE h

\* the step a part of state_machine leaves, unless the call has ended in it
StepTo(h, next_step) == IF h.done THEN h ELSE [h EXCEPT !.step = next_step]

\* the PDU that a part of state_machine has prepared is ready to be sent, and
\* the call returns
PacketReady(h) == IF h.done THEN h ELSE Return([h EXCEPT !.packet_ready = TRUE])

\* state_machine, step TRANSACTION_START
sm_transaction_start(h, file, width, local_id) ==
    IF ~h.done /\ h.step = "TRANSACTION_START"
    THEN StepTo(transaction_start(h, file, width, local_id), "CRC_PROCEDURE")
    ELSE h

\* state_machine, step CRC_PROCEDURE
sm_crc_procedure(h, file, short) ==
    IF ~h.done /\ h.step = "CRC_PROCEDURE" THEN crc_procedure(h, file, short) ELSE h

\* state_machine, step SENDING_METADATA
sm_sending_metadata(h) ==
    IF ~h.done /\ h.step = "SENDING_METADATA"
    THEN PacketReady(prepare_metadata_pdu(h, h.current_req))
    ELSE h

\* state_machine that goes on to the EOF PDU after it has prepared a File-Data
\* PDU
file_data_prepared_falls_through(f) ==
    IF f.h.done THEN f.h ELSE [f.h EXCEPT !.step = "SENDING_EOF"]

\* state_machine after _prepare_next_file_data_pdu: with a PDU prepared the
\* call returns, with none the step becomes SENDING_EOF
file_data_prepared(f) ==
    IF f.h.done THEN f.h
    ELSE IF f.prepared THEN Return([f.h EXCEPT !.packet_ready = TRUE])
    ELSE [f.h EXCEPT !.step = "SENDING_EOF"]

\* state_machine, step SENDING_FILE_DATA
sm_sending_file_data(h, file, short, width) ==
    IF ~h.done /\ h.step = "SENDING_FILE_DATA"
    THEN file_data_prepared(prepare_next_file_data_pdu(h, file, short, width))
    ELSE h

\* state_machine, step SENDING_EOF
sm_sending_eof(h) ==
    IF ~h.done /\ h.step = "SENDING_EOF" THEN PacketReady(prepare_eof_pdu(h)) ELSE h

\* state_machine, step NOTICE_OF_COMPLETION
sm_notice_of_completion(h) ==
    IF ~h.done /\ h.step = "NOTICE_OF_COMPLETION" THEN notice_of_completion(h) ELSE h

\* SourceHandler.state_machine, the steps of a Class 1 transaction in the
\* order of the method's if statements
state_machine_class1(h, file, short, width, local_id) ==
    Return(sm_notice_of_completion(sm_sending_eof(sm_sending_file_data(
        sm_sending_metadata(sm_crc_procedure(
            sm_transaction_start(sm_idle(h), file, width, local_id),
            file, short)),
        file, short, width))))

\* SourceHandler.state_machine
state_machine(h, file, short, width, local_id) ==
    IF h.state = "IDLE" THEN Return(h)
    ELSE IF h.state = "BUSY_CLASS_1_NACKED"
    THEN state_machine_class1(h, file, short, width, local_id)
    ELSE Return(h)

\* advance_fsm without the check of packet_ready
advance_fsm_unguarded(h) ==
    IF h.state # "BUSY_CLASS_1_NACKED" THEN Return(h)
    ELSE IF h.step = "SENDING_METADATA" THEN Return([h EXCEPT !.step = "SENDING_FILE_DATA"])
    ELSE IF h.step = "SENDING_FILE_DATA"
    THEN IF h.fp.offset = h.fp.size THEN Return([h EXCEPT !.step = "SENDING_EOF"])
         ELSE Return(h)
    ELSE IF h.step = "SENDING_EOF"
    THEN Return([h EXCEPT !.indications = Append(@, [name |-> "eof_sent_indication",
                                                     transaction_id |-> h.transaction]),
                          !.step = "NOTICE_OF_COMPLETION"])
    ELSE Return(h)

\* SourceHandler.advance_fsm
advance_fsm(h) ==
    IF h.packet_ready THEN Raise(h, "PacketSendNotConfirmed")
    ELSE IF h.state # "BUSY_CLASS_1_NACKED" THEN Return(h)
    ELSE IF h.step = "SENDING_METADATA" THEN Return([h EXCEPT !.step = "SENDING_FILE_DATA"])
    ELSE IF h.step = "SENDING_FILE_DATA"
    THEN IF h.fp.offset = h.fp.size THEN Return([h EXCEPT !.step = "SENDING_EOF"])
         ELSE Return(h)
    ELSE IF h.step = "SENDING_EOF"
    THEN Return([h EXCEPT !.indications = Append(@, [name |-> "eof_sent_indication",
                                                     transaction_id |-> h.transaction]),
                          !.step = "NOTICE_OF_COMPLETION"])
    ELSE Return(h)

\* confirm_packet_sent that flips packet_ready
confirm_packet_sent_toggling(h) == [h EXCEPT !.packet_ready = ~@]

\* SourceHandler.confirm_packet_sent
confirm_packet_sent(h) == [h EXCEPT !.packet_ready = FALSE]

\* what _setup_transmission_mode yields when it raises AttributeError
\* instead of selecting a mode
NoAttribute == "AttributeError"

\* _setup_transmission_mode: the mode of the Put request overrides the
\* remote entity's default, which is read only when the request sets no
\* mode; the read raises AttributeError on a configuration object without
\* the attribute default_transmission_mode
setup_transmission_mode(put_req, rcfg) ==
    IF put_req.trans_mode # "NONE" THEN put_req.trans_mode
    ELSE IF ~HasAttr(rcfg, "default_transmission_mode") THEN NoAttribute
    ELSE rcfg.default_transmission_mode

\* the values a public method returns, as opposed to the exceptions it raises
ReturnValues == {"ok", "True", "False", "None"}

\* the outcome of a call of method name that ended with r
Outcome(r, name) ==
    [outcome |-> r, raised_in |-> IF r \in ReturnValues THEN "-" ELSE name]

\* the handler's fields and the observers after a call that ended as h
Commit(h, name) ==
    /\ state' = h.state
    /\ step' = h.step
    /\ packet_ready' = h.packet_ready
    /\ fp' = h.fp
    /\ transaction' = h.transaction
    /\ remote_cfg' = h.remote_cfg
    /\ pdu_conf' = h.pdu_conf
    /\ pdu_wrapper' = h.pdu_wrapper
    /\ current_req' = h.current_req
    /\ rec_queue' = h.rec_queue
    /\ seq_count' = h.seq_count
    /\ pdu_conf_in_holder' = h.pdu_conf_in_holder
    /\ indications' = h.indications
    /\ emitted' = h.emitted
    /\ reads' = h.reads
    /\ result' = Outcome(h.result, name)

\* start_transaction without the check that the handler is idle
start_transaction_unchecked(h, wrapper, rcfg) ==
    IF wrapper.request_type # "PUT" THEN [Return(h) EXCEPT !.result = "None"]
    ELSE LET mode == setup_transmission_mode(wrapper, rcfg)
             h1 == [h EXCEPT !.current_req = wrapper, !.remote_cfg = rcfg,
                             !.packet_ready = FALSE, !.pdu_conf.trans_mode = mode]
         IN  IF mode = NoAttribute
             THEN Raise([h EXCEPT !.current_req = wrapper, !.remote_cfg = rcfg,
                                  !.packet_ready = FALSE], "AttributeError")
             ELSE IF mode = "UNACKNOWLEDGED"
             THEN [Return(h1) EXCEPT !.state = "BUSY_CLASS_1_NACKED", !.result = "True"]
             ELSE IF mode = "ACKNOWLEDGED"
             THEN [Return(h1) EXCEPT !.state = "BUSY_CLASS_2_ACKED", !.result = "True"]
             ELSE Raise(h1, "ValueError")

\* SourceHandler.start_transaction(wrapper, remote_cfg); result is the value
\* returned ("True", "False", "None") or the exception raised
start_transaction(h, wrapper, rcfg) ==
    IF wrapper.request_type # "PUT" THEN [Return(h) EXCEPT !.result = "None"]
    ELSE IF h.state # "IDLE" THEN [Return(h) EXCEPT !.result = "False"]
    ELSE LET mode == setup_transmission_mode(wrapper, rcfg)
             h1 == [h EXCEPT !.current_req = wrapper, !.remote_cfg = rcfg,
                             !.packet_ready = FALSE, !.pdu_conf.trans_mode = mode]
         IN  IF mode = NoAttribute
             THEN Raise([h EXCEPT !.current_req = wrapper, !.remote_cfg = rcfg,
                                  !.packet_ready = FALSE], "AttributeError")
             ELSE IF mode = "UNACKNOWLEDGED"
             THEN [Return(h1) EXCEPT !.state = "BUSY_CLASS_1_NACKED", !.result = "True"]
             ELSE IF mode = "ACKNOWLEDGED"
             THEN [Return(h1) EXCEPT !.state = "BUSY_CLASS_2_ACKED", !.result = "True"]
             ELSE Raise(h1, "ValueError")

\* pass_packet that puts the PDU at the front of the receive queue
pass_packet_at_front(h, pdu) ==
    IF pdu.pdu_type = "FILE_DATA" THEN Raise(h, "InvalidPduForSourceHandler")
    ELSE IF pdu.pdu_type = "METADATA" THEN Raise(h, "InvalidPduForSourceHandler")
    ELSE Return([h EXCEPT !.rec_queue = <<pdu>> \o @])

\* SourceHandler.pass_packet(wrapper)
pass_packet(h, pdu) ==
    IF pdu.pdu_type = "FILE_DATA" THEN Raise(h, "InvalidPduForSourceHandler")
    ELSE IF pdu.pdu_type = "METADATA" THEN Raise(h, "InvalidPduForSourceHandler")
    ELSE Return([h EXCEPT !.rec_queue = Append(@, pdu)])

(* --------------------------- DestHandler ------------------------------- *)
\* DestFileParams.empty()
DestFileParamsEmpty ==
    [offset |-> 0, segment_len |-> 0, crc32 |-> << >>, size |-> 0, file_name |-> "."]

\* the directive types of the file directive PDUs
DirectiveTypes == {"METADATA", "EOF", "FINISHED"}

\* DestHandler.__init__; _file_directives_dict maps a directive type to the
\* list of its PDUs, a key that is not in the dict to the empty list (a list
\* in the dict is never empty: pass_packet creates it with one element)
DestHandlerInit ==
    [state |-> "IDLE", transaction |-> "IDLE", packet_ready |-> FALSE,
     pdu_holder |-> NoPdu, transaction_id |-> None,
     checksum_type |-> "NULL_CHECKSUM", closure_requested |-> FALSE,
     fp |-> DestFileParamsEmpty,
     file_directives_dict |-> [t \in DirectiveTypes |-> << >>],
     file_data_deque |-> << >>]

\* the receiving entity after construction: no destination file, nothing sent
DestInit ==
    /\ dest = DestHandlerInit
    /\ dest_indication_cfg = [file_segment_recvd_indication_required |-> FALSE,
                              eof_recv_indication_required |-> TRUE]
    /\ dest_file = Missing
    /\ dest_indications = << >>
    /\ link = << >>

\* the DestHandler with the filestore and the user it works on, as one value
DCur == [h |-> dest, file |-> dest_file, ind |-> dest_indications]

\* vfs.write_data(file, data, offset): creates the file if it is missing and
\* writes data at offset, extending the file as needed
WriteData(file, data, offset) ==
    LET old == IF file.exists THEN file.data ELSE << >>
        n == IF Len(old) > offset + Len(data) THEN Len(old) ELSE offset + Len(data)
    IN  FileOf(SubSeq([i \in 1..n |->
                          IF i > offset /\ i <= offset + Len(data) THEN data[i - offset]
                          ELSE IF i <= Len(old) THEN old[i] ELSE 0], 1, n))

\* _start_transaction that takes every transfer for a Class 1 transfer
dest_start_transaction_class1_only(d, metadata_pdu) ==
    IF d.h.state # "IDLE" THEN [d |-> d, started |-> FALSE]
    ELSE LET tid == [source_entity_id |-> metadata_pdu.pdu_conf.source_entity_id,
                     seq_num |-> metadata_pdu.pdu_conf.transaction_seq_num]
             h1 == [d.h EXCEPT
                      !.state = "BUSY_CLASS_1_NACKED",
                      !.checksum_type = metadata_pdu.checksum_type,
                      !.closure_requested = metadata_pdu.closure_requested,
                      !.fp.file_name = metadata_pdu.dest_file_name,
                      !.fp.size = metadata_pdu.file_size,
                      !.transaction_id = tid,
                      !.transaction = "RECEIVING_FILE_DATA"]
             params == [name |-> "metadata_recv_indication", transaction_id |-> tid,
                        file_size |-> metadata_pdu.file_size,
                        source_id |-> metadata_pdu.pdu_conf.source_entity_id,
                        dest_file_name |-> metadata_pdu.dest_file_name,
                        source_file_name |-> metadata_pdu.source_file_name]
         IN  [d |-> [d EXCEPT !.h = h1, !.ind = Append(@, params)], started |-> TRUE]

\* DestHandler._start_transaction(metadata_pdu)
dest_start_transaction(d, metadata_pdu) ==
    IF d.h.state # "IDLE" THEN [d |-> d, started |-> FALSE]
    ELSE LET mode == metadata_pdu.pdu_conf.trans_mode
             tid == [source_entity_id |-> metadata_pdu.pdu_conf.source_entity_id,
                     seq_num |-> metadata_pdu.pdu_conf.transaction_seq_num]
             h1 == [d.h EXCEPT
                      !.state = IF mode = "UNACKNOWLEDGED" THEN "BUSY_CLASS_1_NACKED"
                                ELSE IF mode = "ACKNOWLEDGED" THEN "BUSY_CLASS_2_ACKED"
                                ELSE @,
                      !.checksum_type = metadata_pdu.checksum_type,
                      !.closure_requested = metadata_pdu.closure_requested,
                      !.fp.file_name = metadata_pdu.dest_file_name,
                      !.fp.size = metadata_pdu.file_size,
                      !.transaction_id = tid,
                      !.transaction = "RECEIVING_FILE_DATA"]
             params == [name |-> "metadata_recv_indication", transaction_id |-> tid,
                        file_size |-> metadata_pdu.file_size,
                        source_id |-> metadata_pdu.pdu_conf.source_entity_id,
                        dest_file_name |-> metadata_pdu.dest_file_name,
                        source_file_name |-> metadata_pdu.source_file_name]
         IN  [d |-> [d EXCEPT !.h = h1, !.ind = Append(@, params)], started |-> TRUE]

\* the loop of state_machine over the Metadata PDUs of the dict: the first
\* PDU that starts a transaction ends it
RECURSIVE dest_start_first(_, _)
dest_start_first(d, pdus) ==
    IF pdus = << >> THEN [d |-> d, started |-> FALSE]
    ELSE LET r == dest_start_transaction(d, Head(pdus))
         IN  IF r.started THEN r ELSE dest_start_first(r.d, Tail(pdus))

\* the body of the loop over _file_data_deque that writes where the file ends
dest_write_one_appending(d, pdu, cfg) ==
    LET params == [name |-> "file_segment_recv_indication",
                   transaction_id |-> d.h.transaction_id,
                   length |-> Len(pdu.file_data), offset |-> pdu.offset]
        d1 == IF cfg.file_segment_recvd_indication_required
              THEN [d EXCEPT !.ind = Append(@, params)] ELSE d
    IN  [d1 EXCEPT !.file = WriteData(@, pdu.file_data, Len(d.file.data))]

\* the body of the loop of state_machine over _file_data_deque: the
\* indication, when required, then the write at the offset of the PDU
dest_write_one(d, pdu, cfg) ==
    LET params == [name |-> "file_segment_recv_indication",
                   transaction_id |-> d.h.transaction_id,
                   length |-> Len(pdu.file_data), offset |-> pdu.offset]
        d1 == IF cfg.file_segment_recvd_indication_required
              THEN [d EXCEPT !.ind = Append(@, params)] ELSE d
    IN  [d1 EXCEPT !.file = WriteData(@, pdu.file_data, pdu.offset)]

\* the loop of state_machine over _file_data_deque: every PDU of the deque
\* is written, none is taken out
RECURSIVE dest_write_file_data(_, _, _)
dest_write_file_data(d, pdus, cfg) ==
    IF pdus = << >> THEN d
    ELSE dest_write_file_data(dest_write_one(d, Head(pdus), cfg), Tail(pdus), cfg)

\* _handle_eof_pdu that does not look at the condition code
dest_handle_eof_pdu_any_condition(d, eof_pdu, cfg) ==
    LET d1 == [d EXCEPT !.h.fp.crc32 = eof_pdu.file_checksum,
                        !.h.fp.size = eof_pdu.file_size]
        d2 == IF cfg.eof_recv_indication_required
              THEN [d1 EXCEPT !.ind = Append(@, [name |-> "eof_recv_indication",
                                                 transaction_id |-> d.h.transaction_id])]
              ELSE d1
    IN  IF d2.h.transaction # "RECEIVING_FILE_DATA" THEN d2
        ELSE IF d2.h.state = "BUSY_CLASS_1_NACKED"
        THEN [d2 EXCEPT !.h.transaction = "TRANSFER_COMPLETION"]
        ELSE IF d2.h.state = "BUSY_CLASS_2_ACKED"
        THEN [d2 EXCEPT !.h.transaction = "SENDING_ACK_PDU"]
        ELSE d2

\* DestHandler._handle_eof_pdu(eof_pdu)
dest_handle_eof_pdu(d, eof_pdu, cfg) ==
    IF eof_pdu.condition_code # "NO_ERROR" THEN d
    ELSE LET d1 == [d EXCEPT !.h.fp.crc32 = eof_pdu.file_checksum,
                             !.h.fp.size = eof_pdu.file_size]
             d2 == IF cfg.eof_recv_indication_required
                   THEN [d1 EXCEPT !.ind = Append(@, [name |-> "eof_recv_indication",
                                                      transaction_id |-> d.h.transaction_id])]
                   ELSE d1
         IN  IF d2.h.transaction # "RECEIVING_FILE_DATA" THEN d2
             ELSE IF d2.h.state = "BUSY_CLASS_1_NACKED"
             THEN [d2 EXCEPT !.h.transaction = "TRANSFER_COMPLETION"]
             ELSE IF d2.h.state = "BUSY_CLASS_2_ACKED"
             THEN [d2 EXCEPT !.h.transaction = "SENDING_ACK_PDU"]
             ELSE d2

\* the loop of state_machine over the EOF PDUs of the dict
RECURSIVE dest_handle_eof_pdus(_, _, _)
dest_handle_eof_pdus(d, pdus, cfg) ==
    IF pdus = << >> THEN d
    ELSE dest_handle_eof_pdus(dest_handle_eof_pdu(d, Head(pdus), cfg), Tail(pdus), cfg)

\* DestHandler._checksum_verify: pass
dest_checksum_verify(d) == d

\* DestHandler._notice_of_completion: pass
dest_notice_of_completion(d) == d

\* DestHandler._prepare_finished_pdu: pass
dest_prepare_finished_pdu(d) == d

\* state_machine that handles the EOF PDUs before it writes the file data
dest_state_machine_eof_first(d, cfg) ==
    IF d.h.state = "IDLE"
    THEN dest_start_first(d, d.h.file_directives_dict["METADATA"]).d
    ELSE IF d.h.state = "BUSY_CLASS_1_NACKED"
    THEN LET s1 == IF d.h.transaction = "RECEIVING_FILE_DATA"
                   THEN dest_write_file_data(
                            dest_handle_eof_pdus(d, d.h.file_directives_dict["EOF"], cfg),
                            d.h.file_data_deque, cfg)
                   ELSE d
             s2 == IF s1.h.transaction = "TRANSFER_COMPLETION"
                   THEN [dest_notice_of_completion(dest_checksum_verify(s1))
                            EXCEPT !.h.transaction = "SENDING_FINISHED_PDU"]
                   ELSE s1
         IN  IF s2.h.transaction = "SENDING_FINISHED_PDU"
             THEN dest_prepare_finished_pdu(s2) ELSE s2
    ELSE d

\* state_machine that accepts a further Metadata PDU while a transaction runs
dest_state_machine_accepting_again(d, cfg) ==
    IF d.h.state = "IDLE"
    THEN dest_start_first(d, d.h.file_directives_dict["METADATA"]).d
    ELSE IF Len(d.h.file_directives_dict["METADATA"]) > 1
    THEN dest_start_transaction(
             [d EXCEPT !.h.state = "IDLE"],
             d.h.file_directives_dict["METADATA"][Len(d.h.file_directives_dict["METADATA"])]).d
    ELSE IF d.h.state = "BUSY_CLASS_1_NACKED"
    THEN LET s1 == IF d.h.transaction = "RECEIVING_FILE_DATA"
                   THEN dest_handle_eof_pdus(
                            dest_write_file_data(d, d.h.file_data_deque, cfg),
                            d.h.file_directives_dict["EOF"], cfg)
                   ELSE d
             s2 == IF s1.h.transaction = "TRANSFER_COMPLETION"
                   THEN [dest_notice_of_completion(dest_checksum_verify(s1))
                            EXCEPT !.h.transaction = "SENDING_FINISHED_PDU"]
                   ELSE s1
         IN  IF s2.h.transaction = "SENDING_FINISHED_PDU"
             THEN dest_prepare_finished_pdu(s2) ELSE s2
    ELSE d

\* state_machine that writes the queued file data in every step of a Class 1
\* transaction
dest_state_machine_writing_always(d, cfg) ==
    IF d.h.state = "IDLE"
    THEN dest_start_first(d, d.h.file_directives_dict["METADATA"]).d
    ELSE IF d.h.state = "BUSY_CLASS_1_NACKED"
    THEN LET s1 == IF d.h.transaction = "RECEIVING_FILE_DATA"
                   THEN dest_handle_eof_pdus(
                            dest_write_file_data(d, d.h.file_data_deque, cfg),
                            d.h.file_directives_dict["EOF"], cfg)
                   ELSE dest_write_file_data(d, d.h.file_data_deque, cfg)
             s2 == IF s1.h.transaction = "TRANSFER_COMPLETION"
                   THEN [dest_notice_of_completion(dest_checksum_verify(s1))
                            EXCEPT !.h.transaction = "SENDING_FINISHED_PDU"]
                   ELSE s1
         IN  IF s2.h.transaction = "SENDING_FINISHED_PDU"
             THEN dest_prepare_finished_pdu(s2) ELSE s2
    ELSE d

\* DestHandler.state_machine
dest_state_machine(d, cfg) ==
    IF d.h.state = "IDLE"
    THEN dest_start_first(d, d.h.file_directives_dict["METADATA"]).d
    ELSE IF d.h.state = "BUSY_CLASS_1_NACKED"
    THEN LET s1 == IF d.h.transaction = "RECEIVING_FILE_DATA"
                   THEN dest_handle_eof_pdus(
                            dest_write_file_data(d, d.h.file_data_deque, cfg),
                            d.h.file_directives_dict["EOF"], cfg)
                   ELSE d
             s2 == IF s1.h.transaction = "TRANSFER_COMPLETION"
                   THEN [dest_notice_of_completion(dest_checksum_verify(s1))
                            EXCEPT !.h.transaction = "SENDING_FINISHED_PDU"]
                   ELSE s1
         IN  IF s2.h.transaction = "SENDING_FINISHED_PDU"
             THEN dest_prepare_finished_pdu(s2) ELSE s2
    ELSE d

\* pass_packet that puts the PDU in front of the ones that arrived before
dest_pass_packet_at_front(d, packet) ==
    IF packet.pdu_type = "FILE_DATA"
    THEN [d EXCEPT !.h.file_data_deque = <<packet>> \o @]
    ELSE [d EXCEPT !.h.file_directives_dict[packet.pdu_type] = <<packet>> \o @]

\* DestHandler.pass_packet(packet)
dest_pass_packet(d, packet) ==
    IF packet.pdu_type = "FILE_DATA"
    THEN [d EXCEPT !.h.file_data_deque = Append(@, packet)]
    ELSE [d EXCEPT !.h.file_directives_dict[packet.pdu_type] = Append(@, packet)]

\* DestHandler.confirm_packet_sent
dest_confirm_packet_sent(d) == [d EXCEPT !.h.packet_ready = FALSE]

\* DestHandler.advance_fsm: pass
dest_advance_fsm(d) == d

\* the DestHandler's fields, the filestore and the user after a call
DestCommit(d) ==
    /\ dest' = d.h
    /\ dest_file' = d.file
    /\ dest_indications' = d.ind

(* ------------------------- inputs of the host --------------------------- *)
\* the Put requests the host issues, and a request that is not a Put request
PutRequests ==
    [request_type : {"PUT"}, source_file : {"/src"}, dest_file : {"/dst"},
     destination_id : {ByteField(1, 2)}, trans_mode : TransmissionModes \cup {"NONE"},
     seg_ctrl : {"NO_RECORD_BOUNDARIES_PRESERVATION"}]

OtherRequests ==
    [request_type : {"OTHER"}, source_file : {"/src"}, dest_file : {"/dst"},
     destination_id : {ByteField(1, 2)}, trans_mode : {"NONE"},
     seg_ctrl : {"NO_RECORD_BOUNDARIES_PRESERVATION"}]

\* RemoteEntityCfg as mib.py declares it: four fields.  An object of this
\* class has neither default_transmission_mode nor closure_requested, the
\* two attributes the source handler reads besides the declared ones
RemoteEntityCfg ==
    [remote_entity_id : {ByteField(1, 2)}, max_file_segment_len : 1..MaxSegLen,
     crc_on_transmission : {FALSE}, crc_type : ChecksumTypes]

\* the configuration objects that have every attribute the source handler
\* reads of its remote_cfg: the four fields of RemoteEntityCfg, and
\* default_transmission_mode and closure_requested, which the host has to
\* give the object (attributes set on the instance, or fields of a subclass)
RemoteCfgs ==
    [remote_entity_id : {ByteField(1, 2)}, max_file_segment_len : 1..MaxSegLen,
     crc_on_transmission : {FALSE}, crc_type : ChecksumTypes,
     default_transmission_mode : TransmissionModes \cup {"NONE"},
     closure_requested : BOOLEAN]

\* the configurations the host that calls in any order is checked with: every
\* segment length and closure flag, each checksum type with one default mode
MibProfiles ==
    { c \in RemoteCfgs :
        \/ c.crc_type = "CRC_32" /\ c.default_transmission_mode = "UNACKNOWLEDGED"
        \/ c.crc_type = "CRC_32C" /\ c.default_transmission_mode = "ACKNOWLEDGED"
        \/ c.crc_type = "MODULAR" /\ c.default_transmission_mode = "NONE" }

\* the PDUs the host hands to the source handler
InboundPdus ==
    { [pdu_type |-> t] : t \in {"FILE_DATA", "METADATA", "FINISHED"} }

(* ------------------------------- actions -------------------------------- *)
\* a call that never returned leaves the single thread inside the handler;
\* a read past the end of the file (short) either returns the bytes that are
\* left or fails, as the filestore implementation decides
Alive == result.outcome # "NoReturn"

\* the observers record one transaction: a Put request to the idle handler
\* starts a new record
NewRecord(h, wrapper) ==
    IF wrapper.request_type = "PUT" /\ h.state = "IDLE"
    THEN [h EXCEPT !.indications = << >>, !.emitted = << >>, !.reads = {}]
    ELSE h

StartTransaction ==
    /\ Alive
    /\ started < MaxTransactions \/ state # "IDLE"
    /\ \E wrapper \in PutRequests \cup OtherRequests :
           Commit(start_transaction(NewRecord(Cur, wrapper), wrapper, mib),
                  "start_transaction")
    /\ started' = IF state = "IDLE" THEN started + 1 ELSE started
    /\ UNCHANGED <<envVars, destVars>>

\* EofPdu is spacepackets code: whether it refuses (ValueError) a checksum
\* that is not four bytes long is its choice; fp.crc32 is four bytes long
\* from CRC_PROCEDURE on unless the host has called params.reset() since
EofPduChecks ==
    IF step \in {"SENDING_FILE_DATA", "SENDING_EOF"} /\ Len(fp.crc32) # 4
    THEN BOOLEAN ELSE {FALSE}

\* the handler as state_machine finds it
CurWith(checks) == [Cur EXCEPT !.eof_pdu_checks = checks]

\* state_machine called by a host that keeps no record of the PDUs
StateMachine ==
    /\ Alive
    /\ seq_count < MaxSeqCount
    /\ \E short \in BOOLEAN, checks \in EofPduChecks :
           LET h == state_machine(CurWith(checks), source_file, short, max_bit_width,
                                  local_entity_id)
           IN  Commit([h EXCEPT !.emitted = emitted], "state_machine")
    /\ UNCHANGED <<envVars, started, destVars>>

ConfirmPacketSent ==
    /\ Alive
    /\ Commit(Return(confirm_packet_sent(Cur)), "confirm_packet_sent")
    /\ UNCHANGED <<envVars, started, destVars>>

AdvanceFsm ==
    /\ Alive
    /\ Commit(advance_fsm(Cur), "advance_fsm")
    /\ UNCHANGED <<envVars, started, destVars>>

\* confirm_packet_sent_advance_fsm
ConfirmPacketSentAdvanceFsm ==
    /\ Alive
    /\ Commit(advance_fsm(confirm_packet_sent(Cur)), "confirm_packet_sent_advance_fsm")
    /\ UNCHANGED <<envVars, started, destVars>>

PassPacket ==
    /\ Alive
    /\ Len(rec_queue) < MaxQueue
    /\ \E pdu \in InboundPdus : Commit(pass_packet(Cur, pdu), "pass_packet")
    /\ UNCHANGED <<envVars, started, destVars>>

Reset ==
    /\ Alive
    /\ Commit(Return(reset(Cur)), "reset")
    /\ UNCHANGED <<envVars, started, destVars>>

\* SourceHandler.params.reset()
ParamsReset ==
    /\ Alive
    /\ Commit(Return(params_reset(Cur)), "reset")
    /\ UNCHANGED <<envVars, started, destVars>>

(* ---------------------------- specification ----------------------------- *)
vars == <<srcVars, envVars, obsVars, destVars>>

\* SourceHandler.__init__ with the environment it is constructed in
Init ==
    /\ state = "IDLE"
    /\ step = "IDLE"
    /\ packet_ready = FALSE
    /\ fp = FileParamsEmpty
    /\ transaction = None
    /\ remote_cfg = None
    /\ local_entity_id = ByteField(2, 1)
    /\ pdu_conf = [PduConfigEmpty EXCEPT !.source_entity_id = ByteField(2, 1)]
    /\ pdu_wrapper = NoPdu
    /\ pdu_conf_in_holder = FALSE
    /\ current_req = None
    /\ rec_queue = << >>
    /\ seq_count = 0
    /\ max_bit_width \in {16}
    /\ indication_cfg \in [eof_sent_indication_required : {TRUE}]
    /\ source_file \in {FileOf(d) : d \in PatternFiles(MaxFileSize)} \cup {Missing}
    /\ mib \in MibProfiles
    /\ indications = << >>
    /\ emitted = << >>
    /\ reads = {}
    /\ result = Outcome("ok", "-")
    /\ started = 0
    /\ DestInit
    /\ MibInit

Next ==
    \/ StartTransaction
    \/ StateMachine
    \/ ConfirmPacketSent
    \/ AdvanceFsm
    \/ ConfirmPacketSentAdvanceFsm
    \/ PassPacket
    \/ Reset

Spec == Init /\ [][Next]_vars

(* ------------------ the host of the Copy File procedure ----------------- *)
\* The host the handler is written for: it starts a transaction, calls
\* state_machine, takes the PDU from the holder whenever the call left
\* packet_ready set, transports it and calls confirm_packet_sent_advance_fsm.
DrivenStart ==
    /\ state = "IDLE"
    /\ StartTransaction

DrivenStateMachine ==
    /\ Alive
    /\ ~packet_ready
    /\ seq_count < MaxSeqCount
    /\ \E short \in BOOLEAN, checks \in EofPduChecks :
           Commit(state_machine(CurWith(checks), source_file, short, max_bit_width,
                                local_entity_id), "state_machine")
    /\ UNCHANGED <<envVars, started, destVars>>

DrivenConfirm ==
    /\ packet_ready
    /\ ConfirmPacketSentAdvanceFsm

\* a Finished PDU arrives from the receiving entity
DrivenPassPacket ==
    /\ Alive
    /\ Len(rec_queue) < MaxQueue
    /\ Commit(pass_packet(Cur, [pdu_type |-> "FINISHED"]), "pass_packet")
    /\ UNCHANGED <<envVars, started, destVars>>

InitDriven ==
    /\ state = "IDLE"
    /\ step = "IDLE"
    /\ packet_ready = FALSE
    /\ fp = FileParamsEmpty
    /\ transaction = None
    /\ remote_cfg = None
    /\ local_entity_id = ByteField(2, 1)
    /\ pdu_conf = [PduConfigEmpty EXCEPT !.source_entity_id = ByteField(2, 1)]
    /\ pdu_wrapper = NoPdu
    /\ pdu_conf_in_holder = FALSE
    /\ current_req = None
    /\ rec_queue = << >>
    /\ seq_count = 0
    /\ max_bit_width \in {16}
    /\ indication_cfg \in [eof_sent_indication_required : {TRUE}]
    /\ source_file \in {FileOf(d) : d \in FilesUpTo(MaxFileSize)} \cup {Missing}
    /\ mib \in RemoteCfgs
    /\ indications = << >>
    /\ emitted = << >>
    /\ reads = {}
    /\ result = Outcome("ok", "-")
    /\ started = 0
    /\ DestInit
    /\ MibInit

NextDriven ==
    \/ DrivenStart
    \/ DrivenStateMachine
    \/ DrivenConfirm
    \/ DrivenPassPacket

SpecDriven == InitDriven /\ [][NextDriven]_vars

(* ------------- the Copy File procedure between two entities ------------- *)
\* The host of the sending entity sends every PDU it takes from the holder
\* to the receiving entity, whose host hands it to DestHandler.pass_packet
\* and calls DestHandler.state_machine repeatedly.
RtSendPdu ==
    /\ Alive
    /\ packet_ready
    /\ Commit(advance_fsm(confirm_packet_sent(Cur)), "confirm_packet_sent_advance_fsm")
    /\ link' = Append(link, pdu_wrapper)
    /\ UNCHANGED <<envVars, started, dest, dest_indication_cfg, dest_file,
                   dest_indications>>

DestPassPacket ==
    /\ link # << >>
    /\ DestCommit(dest_pass_packet(DCur, Head(link)))
    /\ link' = Tail(link)
    /\ UNCHANGED <<srcVars, envVars, obsVars, dest_indication_cfg>>

DestStateMachine ==
    /\ DestCommit(dest_state_machine(DCur, dest_indication_cfg))
    /\ UNCHANGED <<srcVars, envVars, obsVars, dest_indication_cfg, link>>

\* DestHandler.confirm_packet_sent_advance_fsm
DestConfirmPacketSentAdvanceFsm ==
    /\ DestCommit(dest_advance_fsm(dest_confirm_packet_sent(DCur)))
    /\ UNCHANGED <<srcVars, envVars, obsVars, dest_indication_cfg, link>>

\* both entities hold the same configuration of the transfer: an
\* unacknowledged transfer with one of the implemented checksums
InitRoundTrip ==
    /\ InitDriven
    /\ source_file.data \in PatternFiles(MaxFileSize)
    /\ mib.default_transmission_mode = "UNACKNOWLEDGED"
    /\ mib.crc_type \in {"CRC_32", "CRC_32C"}

NextRoundTrip ==
    \/ DrivenStart
    \/ DrivenStateMachine
    \/ RtSendPdu
    \/ DestPassPacket
    \/ DestStateMachine
    \/ DestConfirmPacketSentAdvanceFsm

SpecRoundTrip == InitRoundTrip /\ [][NextRoundTrip]_vars

(* ------------------ the host of the receiving entity ------------------- *)
\* the checksum of a file's content as the sending entity computes it
ChecksumOf(crc_type, data) ==
    IF crc_type = "CRC_32C" THEN CrcDigest(CrcUpdate(AllOnes, PolyCrc32c, data))
    ELSE CrcDigest(CrcUpdate(AllOnes, PolyCrc32, data))

\* the PduConfig of the PDUs that arrive at the receiving entity
InboundPduConf ==
    [PduConfigEmpty EXCEPT !.source_entity_id = ByteField(2, 1),
                           !.dest_entity_id = ByteField(1, 2),
                           !.transaction_seq_num = ByteField(2, 0),
                           !.trans_mode = "UNACKNOWLEDGED"]

\* the Metadata PDUs that arrive: with and without closure requested
InboundMetadataPdus ==
    { [pdu_type |-> "METADATA", pdu_conf |-> InboundPduConf,
       dest_file_name |-> "/dst", source_file_name |-> "/src",
       checksum_type |-> "CRC_32", closure_requested |-> cl, file_size |-> 2]
      : cl \in BOOLEAN }

\* the File-Data PDUs that arrive: one or two bytes at offsets 0, 1 and 2
InboundFileDataPdus ==
    { [pdu_type |-> "FILE_DATA", pdu_conf |-> InboundPduConf, file_data |-> fd,
       offset |-> o, segment_metadata_flag |-> FALSE]
      : fd \in {<<255>>, <<0, 255>>}, o \in 0..2 }

\* the EOF PDUs that arrive: the checksum of the file <<255, 255>> or the null
\* checksum, announced without error, and an EOF PDU of a cancelled transfer
InboundEofPdus ==
    { [pdu_type |-> "EOF", pdu_conf |-> InboundPduConf, condition_code |-> "NO_ERROR",
       file_checksum |-> ck, file_size |-> 2]
      : ck \in {ChecksumOf("CRC_32", <<255, 255>>), NULL_CHECKSUM_U32} }
    \cup
    { [pdu_type |-> "EOF", pdu_conf |-> InboundPduConf,
       condition_code |-> "CANCEL_REQUEST_RECEIVED",
       file_checksum |-> NULL_CHECKSUM_U32, file_size |-> 0] }

\* the number of PDUs the DestHandler has been handed
DestPdusPassed ==
    Len(dest.file_data_deque) + Len(dest.file_directives_dict["METADATA"])
    + Len(dest.file_directives_dict["EOF"]) + Len(dest.file_directives_dict["FINISHED"])

\* the receiving host hands a PDU that has arrived, in any order, to pass_packet
DestHostPassPacket ==
    /\ DestPdusPassed < MaxDestPdus
    /\ \E packet \in InboundMetadataPdus \cup InboundFileDataPdus \cup InboundEofPdus :
           DestCommit(dest_pass_packet(DCur, packet))
    /\ UNCHANGED <<srcVars, envVars, obsVars, dest_indication_cfg, link>>

\* the receiving host calls state_machine
DestHostStateMachine ==
    /\ Len(dest_indications) < MaxDestIndications
    /\ DestStateMachine

\* the receiving entity after construction, with either setting of
\* file_segment_recvd_indication_required; the sending entity of the same
\* process is constructed and stays idle
InitDest ==
    /\ state = "IDLE"
    /\ step = "IDLE"
    /\ packet_ready = FALSE
    /\ fp = FileParamsEmpty
    /\ transaction = None
    /\ remote_cfg = None
    /\ local_entity_id = ByteField(2, 1)
    /\ pdu_conf = [PduConfigEmpty EXCEPT !.source_entity_id = ByteField(2, 1)]
    /\ pdu_wrapper = NoPdu
    /\ pdu_conf_in_holder = FALSE
    /\ current_req = None
    /\ rec_queue = << >>
    /\ seq_count = 0
    /\ max_bit_width = 16
    /\ indication_cfg = [eof_sent_indication_required |-> TRUE]
    /\ source_file = Missing
    /\ mib \in { c \in MibProfiles : /\ c.crc_type = "CRC_32"
                                     /\ c.max_file_segment_len = 1
                                     /\ ~c.closure_requested }
    /\ indications = << >>
    /\ emitted = << >>
    /\ reads = {}
    /\ result = Outcome("ok", "-")
    /\ started = 0
    /\ dest = DestHandlerInit
    /\ dest_indication_cfg \in [file_segment_recvd_indication_required : BOOLEAN,
                                eof_recv_indication_required : {TRUE}]
    /\ dest_file = Missing
    /\ dest_indications = << >>
    /\ link = << >>
    /\ MibInit

NextDest ==
    \/ DestHostPassPacket
    \/ DestHostStateMachine
    \/ DestConfirmPacketSentAdvanceFsm

SpecDest == InitDest /\ [][NextDest]_vars

\* the receiving host calls state_machine again and again, and confirms and
\* advances after every call
SpecDestFair ==
    /\ SpecDest
    /\ WF_vars(DestHostStateMachine)
    /\ WF_vars(DestConfirmPacketSentAdvanceFsm)

(* ------------- the host that hands over every kind of PDU -------------- *)
\* the PDUs that arrive at the sending entity: File-Data, Metadata and the
\* file directives Finished, ACK and NAK
InboxPdus ==
    { [pdu_type |-> t] : t \in {"FILE_DATA", "METADATA", "FINISHED", "ACK", "NAK"} }

\* the host hands a PDU that has arrived to pass_packet
InboxPassPacket ==
    /\ Alive
    /\ Len(rec_queue) < MaxInbox
    /\ \E pdu \in InboxPdus : Commit(pass_packet(Cur, pdu), "pass_packet")
    /\ UNCHANGED <<envVars, started, destVars>>

\* a source file of one byte, sent in one segment with checksum CRC_32
InitInbox ==
    /\ Init
    /\ source_file = FileOf(<<255>>)
    /\ mib.crc_type = "CRC_32"
    /\ mib.max_file_segment_len = 1

NextInbox ==
    \/ DrivenStart
    \/ DrivenStateMachine
    \/ DrivenConfirm
    \/ InboxPassPacket
    \/ Reset

SpecInbox == InitInbox /\ [][NextInbox]_vars

(* ------------- sequence number providers of every width --------------- *)
\* the max_bit_width of the sequence number providers the handler is
\* constructed with: the four widths of a transaction sequence number and
\* one that is none of them
SeqNumWidths == {8, 16, 24, 32, 64}

\* SourceHandler.__init__ with a provider of any of these widths, an existing
\* source file and the checksum CRC_32
InitSeqNum ==
    /\ state = "IDLE"
    /\ step = "IDLE"
    /\ packet_ready = FALSE
    /\ fp = FileParamsEmpty
    /\ transaction = None
    /\ remote_cfg = None
    /\ local_entity_id = ByteField(2, 1)
    /\ pdu_conf = [PduConfigEmpty EXCEPT !.source_entity_id = ByteField(2, 1)]
    /\ pdu_wrapper = NoPdu
    /\ pdu_conf_in_holder = FALSE
    /\ current_req = None
    /\ rec_queue = << >>
    /\ seq_count = 0
    /\ max_bit_width \in SeqNumWidths
    /\ indication_cfg \in [eof_sent_indication_required : {TRUE}]
    /\ source_file \in {FileOf(d) : d \in PatternFiles(MaxFileSize)}
    /\ mib \in {c \in MibProfiles : c.crc_type = "CRC_32"}
    /\ indications = << >>
    /\ emitted = << >>
    /\ reads = {}
    /\ result = Outcome("ok", "-")
    /\ started = 0
    /\ DestInit
    /\ MibInit

SpecSeqNum == InitSeqNum /\ [][NextDriven]_vars

(* ---------- local entities with either eof_sent setting ---------------- *)
\* SourceHandler.__init__ with a LocalEntityCfg whose indication_cfg has
\* eof_sent_indication_required set or cleared; an existing source file, the
\* checksum CRC_32 and Class 1 as the remote entity's default mode
InitIndication ==
    /\ state = "IDLE"
    /\ step = "IDLE"
    /\ packet_ready = FALSE
    /\ fp = FileParamsEmpty
    /\ transaction = None
    /\ remote_cfg = None
    /\ local_entity_id = ByteField(2, 1)
    /\ pdu_conf = [PduConfigEmpty EXCEPT !.source_entity_id = ByteField(2, 1)]
    /\ pdu_wrapper = NoPdu
    /\ pdu_conf_in_holder = FALSE
    /\ current_req = None
    /\ rec_queue = << >>
    /\ seq_count = 0
    /\ max_bit_width = 16
    /\ indication_cfg \in [eof_sent_indication_required : BOOLEAN]
    /\ source_file \in {FileOf(d) : d \in PatternFiles(MaxFileSize)}
    /\ mib \in {c \in MibProfiles : c.crc_type = "CRC_32"}
    /\ indications = << >>
    /\ emitted = << >>
    /\ reads = {}
    /\ result = Outcome("ok", "-")
    /\ started = 0
    /\ DestInit
    /\ MibInit

SpecIndication == InitIndication /\ [][NextDriven]_vars

(* ------------- hosts that confirm at any time, on both sides ------------ *)
\* the receiving host calls DestHandler.confirm_packet_sent
DestConfirmPacketSent ==
    /\ DestCommit(dest_confirm_packet_sent(DCur))
    /\ UNCHANGED <<srcVars, envVars, obsVars, dest_indication_cfg, link>>

\* the sending host takes the PDU from the holder, sends it, confirms and
\* advances
ConfirmSendPdu ==
    /\ Len(link) < MaxQueue
    /\ RtSendPdu

\* a transfer of up to two bytes in segments of one byte with checksum CRC_32
InitConfirm ==
    /\ InitRoundTrip
    /\ Len(source_file.data) <= 2
    /\ mib.crc_type = "CRC_32"
    /\ mib.max_file_segment_len = 1

\* both hosts call confirm_packet_sent whenever they like, also twice in a
\* row and with no PDU waiting
NextConfirm ==
    \/ DrivenStart
    \/ StateMachine
    \/ ConfirmPacketSent
    \/ ConfirmSendPdu
    \/ DestPassPacket
    \/ DestStateMachine
    \/ DestConfirmPacketSent
    \/ DestConfirmPacketSentAdvanceFsm

SpecConfirm == InitConfirm /\ [][NextConfirm]_vars

(* ------------------ RemoteEntityTable and CfdpHandler ------------------- *)
\* the number of calls the host of the table and of the CfdpHandler makes
MaxMibCalls == 4

\* key in dict
dict_contains(d, key) == \E i \in 1..Len(d) : d[i].key = key

\* dict.get(key): the value stored for key, or None
dict_get(d, key) ==
    IF dict_contains(d, key)
    THEN d[CHOOSE i \in 1..Len(d) : d[i].key = key].value
    ELSE None

\* dict.update({key: value}): replaces the value of a key the dict holds and
\* appends a new item otherwise
dict_update(d, key, value) ==
    IF dict_contains(d, key)
    THEN SubSeq([i \in 1..Len(d) |-> IF d[i].key = key
                                     THEN [key |-> key, value |-> value] ELSE d[i]],
                1, Len(d))
    ELSE Append(d, [key |-> key, value |-> value])

\* add_remote_entity without the test for an entry that exists
add_remote_entity_unchecked(d, cfg) ==
    [dict |-> dict_update(d, cfg.remote_entity_id, cfg), returned |-> TRUE]

\* RemoteEntityTable.add_remote_entity(cfg)
add_remote_entity(d, cfg) ==
    IF dict_contains(d, cfg.remote_entity_id)
    THEN [dict |-> d, returned |-> FALSE]
    ELSE [dict |-> dict_update(d, cfg.remote_entity_id, cfg), returned |-> TRUE]

\* RemoteEntityTable.get_remote_entity(remote_entity_id)
get_remote_entity(d, remote_entity_id) == dict_get(d, remote_entity_id)

\* the member IDLE of the enumeration CfdpStates
CfdpStatesIdle == [class |-> "CfdpStates", name |-> "IDLE"]

\* CfdpHandler.state: StateWrapper(source_handler_state=self._tx_handler.states),
\* the SourceStateWrapper object of the source handler
StateWrapper(h) ==
    [source_handler_state |->
        [class |-> "SourceStateWrapper", state |-> h.state, step |-> h.step,
         packet_ready |-> h.packet_ready]]

\* Python's a != b for objects whose classes define no comparison with each
\* other: objects of different classes are not equal
py_ne(a, b) == IF a.class # b.class THEN TRUE ELSE a # b

\* CfdpHandler.start_put_request(put_request): h is the source handler the
\* CfdpHandler owns, wrapper its _request_wrapper.base, d the dict of its table
start_put_request(h, wrapper, d, put_request) ==
    IF py_ne(StateWrapper(h).source_handler_state, CfdpStatesIdle)
    THEN [h |-> Raise(h, "BusyError"), wrapper |-> wrapper]
    ELSE LET rcfg == get_remote_entity(d, put_request.destination_id)
         IN  IF rcfg = None
             THEN [h |-> Raise(h, "NoRemoteEntityCfgFound"), wrapper |-> put_request]
             ELSE LET s == start_transaction(h, put_request, rcfg)
                  IN  [h |-> IF s.result \in ReturnValues
                             THEN [s EXCEPT !.result = "None"] ELSE s,
                       wrapper |-> put_request]

\* the ids of the remote entities: two ids of one byte, and an id of two
\* bytes with the value of one of them
TableIds == {ByteField(1, 2), ByteField(1, 3), ByteField(2, 2)}

\* the configurations the host adds to the table: two RemoteEntityCfg
\* objects for every id
TableCfgs ==
    { [remote_entity_id |-> id, max_file_segment_len |-> n,
       crc_on_transmission |-> FALSE, crc_type |-> "CRC_32"]
      : id \in TableIds, n \in 1..2 }

\* the Put requests the host hands to the CfdpHandler: Class 1 transfers to
\* each of the ids
TablePutRequests ==
    { [r EXCEPT !.destination_id = id]
      : r \in {q \in PutRequests : q.trans_mode = "UNACKNOWLEDGED"}, id \in TableIds }

\* the host adds a configuration to the table
AddRemoteEntity ==
    /\ Len(mib_calls) < MaxMibCalls
    /\ \E cfg \in TableCfgs :
           LET r == add_remote_entity(remote_entity_dict, cfg)
           IN  /\ remote_entity_dict' = r.dict
               /\ mib_calls' = Append(mib_calls, [op |-> "add_remote_entity", arg |-> cfg,
                                                  returned |-> r.returned])
    /\ UNCHANGED <<max_bit_width, local_entity_id, indication_cfg, source_file, mib,
                   request_wrapper, srcVars, obsVars, destVars>>

\* the host looks an id up
GetRemoteEntity ==
    /\ Len(mib_calls) < MaxMibCalls
    /\ \E id \in TableIds :
           mib_calls' = Append(mib_calls,
                               [op |-> "get_remote_entity", arg |-> id,
                                returned |-> get_remote_entity(remote_entity_dict, id)])
    /\ UNCHANGED <<max_bit_width, local_entity_id, indication_cfg, source_file, mib,
                   remote_entity_dict, request_wrapper, srcVars, obsVars, destVars>>

\* the host hands a Put request to the CfdpHandler
StartPutRequest ==
    /\ Alive
    /\ Len(mib_calls) < MaxMibCalls
    /\ \E put_request \in TablePutRequests :
           LET r == start_put_request(Cur, request_wrapper, remote_entity_dict, put_request)
           IN  /\ Commit(r.h, "start_put_request")
               /\ request_wrapper' = r.wrapper
               /\ mib_calls' = Append(mib_calls, [op |-> "start_put_request",
                                                  arg |-> put_request,
                                                  returned |-> r.h.result])
    /\ UNCHANGED <<max_bit_width, local_entity_id, indication_cfg, source_file, mib,
                   remote_entity_dict, started, destVars>>

\* CfdpHandler.__init__ with an empty table and a source file of one byte
InitMib ==
    /\ Init
    /\ source_file = FileOf(<<255>>)
    /\ mib.crc_type = "CRC_32"
    /\ mib.max_file_segment_len = 1
    /\ ~mib.closure_requested

NextMib ==
    \/ AddRemoteEntity
    \/ GetRemoteEntity
    \/ StartPutRequest

SpecMib == InitMib /\ [][NextMib]_vars

(* --------------- the checksum of a file, computed directly -------------- *)
\* the host calls calc_cfdp_file_crc with the size of the source file and the
\* segment length of the remote entity, as the CRC_PROCEDURE step does
CalcCfdpFileCrc ==
    /\ Alive
    /\ reads = {}
    /\ \E short \in BOOLEAN :
           LET c == calc_cfdp_file_crc(mib.crc_type, source_file, Len(source_file.data),
                                       mib.max_file_segment_len, short)
           IN  /\ reads' = c.reads
               /\ result' = Outcome(c.outcome, "calc_cfdp_file_crc")
    /\ UNCHANGED <<srcVars, envVars, indications, emitted, started, destVars>>

\* every existing source file of up to MaxFileSize bytes, every segment length
\* and both checksums the handler implements
InitCrc ==
    /\ InitDriven
    /\ source_file.exists
    /\ mib.crc_type \in {"CRC_32", "CRC_32C"}
    /\ mib.default_transmission_mode = "UNACKNOWLEDGED"
    /\ ~mib.closure_requested

NextCrc == CalcCfdpFileCrc

SpecCrc == InitCrc /\ [][NextCrc]_vars

(* ------------- the host that calls in any order and keeps a record ------ *)
\* largest number of PDUs on the record of one transaction
MaxRecorded == 5

\* state_machine called at any time by a host that notes every PDU the
\* handler places in the holder
RecordedStateMachine ==
    /\ Alive
    /\ seq_count < MaxSeqCount
    /\ Len(emitted) < MaxRecorded
    /\ \E short \in BOOLEAN, checks \in EofPduChecks :
           Commit(state_machine(CurWith(checks), source_file, short, max_bit_width,
                                local_entity_id), "state_machine")
    /\ UNCHANGED <<envVars, started, destVars>>

\* source files of up to two bytes, sent in segments of one byte with
\* checksum CRC_32 and without closure
InitRecorded ==
    /\ Init
    /\ source_file.exists
    /\ Len(source_file.data) <= 2
    /\ mib.crc_type = "CRC_32"
    /\ mib.max_file_segment_len = 1
    /\ ~mib.closure_requested

NextRecorded ==
    \/ StartTransaction
    \/ RecordedStateMachine
    \/ ConfirmPacketSent
    \/ AdvanceFsm
    \/ ConfirmPacketSentAdvanceFsm
    \/ Reset

SpecRecorded == InitRecorded /\ [][NextRecorded]_vars

(* ------------- Metadata PDUs of either transmission mode --------------- *)
\* the Metadata PDUs that arrive at the receiving entity: either transmission
\* mode, with and without closure requested, announcing the file /dst of two
\* bytes with checksum CRC_32 or the empty file /other with the null checksum
StartMetadataPdus ==
    { [pdu_type |-> "METADATA",
       pdu_conf |-> [InboundPduConf EXCEPT !.trans_mode = mode,
                                           !.transaction_seq_num = ByteField(2, f.seq)],
       dest_file_name |-> f.name, source_file_name |-> "/src",
       checksum_type |-> f.checksum_type, closure_requested |-> cl,
       file_size |-> f.size]
      : mode \in TransmissionModes, cl \in BOOLEAN,
        f \in { [name |-> "/dst", size |-> 2, checksum_type |-> "CRC_32", seq |-> 0],
                [name |-> "/other", size |-> 0, checksum_type |-> "NULL_CHECKSUM",
                 seq |-> 1] } }

\* the File-Data and EOF PDUs that arrive with them
StartOtherPdus ==
    { p \in InboundFileDataPdus : p.offset = 0 } \cup InboundEofPdus

\* the receiving host hands a PDU that has arrived to pass_packet
StartPassPacket ==
    /\ DestPdusPassed < MaxDestPdus
    /\ \E packet \in StartMetadataPdus \cup StartOtherPdus :
           DestCommit(dest_pass_packet(DCur, packet))
    /\ UNCHANGED <<srcVars, envVars, obsVars, dest_indication_cfg, link>>

NextDestStart ==
    \/ StartPassPacket
    \/ DestHostStateMachine
    \/ DestConfirmPacketSentAdvanceFsm

SpecDestStart == InitDest /\ [][NextDestStart]_vars

(* ------- receiving entities with every setting of the indications ------- *)
\* the receiving entity after construction, with either setting of
\* file_segment_recvd_indication_required and of eof_recv_indication_required
InitDestIndication ==
    /\ state = "IDLE"
    /\ step = "IDLE"
    /\ packet_ready = FALSE
    /\ fp = FileParamsEmpty
    /\ transaction = None
    /\ remote_cfg = None
    /\ local_entity_id = ByteField(2, 1)
    /\ pdu_conf = [PduConfigEmpty EXCEPT !.source_entity_id = ByteField(2, 1)]
    /\ pdu_wrapper = NoPdu
    /\ pdu_conf_in_holder = FALSE
    /\ current_req = None
    /\ rec_queue = << >>
    /\ seq_count = 0
    /\ max_bit_width = 16
    /\ indication_cfg = [eof_sent_indication_required |-> TRUE]
    /\ source_file = Missing
    /\ mib \in { c \in MibProfiles : /\ c.crc_type = "CRC_32"
                                     /\ c.max_file_segment_len = 1
                                     /\ ~c.closure_requested }
    /\ indications = << >>
    /\ emitted = << >>
    /\ reads = {}
    /\ result = Outcome("ok", "-")
    /\ started = 0
    /\ dest = DestHandlerInit
    /\ dest_indication_cfg \in [file_segment_recvd_indication_required : BOOLEAN,
                                eof_recv_indication_required : BOOLEAN]
    /\ dest_file = Missing
    /\ dest_indications = << >>
    /\ link = << >>
    /\ MibInit

SpecDestIndication == InitDestIndication /\ [][NextDest]_vars

(* ------------------- the setters of the source handler ------------------ *)
\* an assignment to a field of TransferFieldWrapper._pdu_conf.  A PDU is
\* constructed with pdu_conf=self.params.pdu_conf; whether it keeps that
\* object or a copy of it is for spacepackets to decide: the PDU in the
\* holder that was constructed with this object shows the assignment in the
\* one case and not in the other
AssignPduConf(conf) ==
    /\ pdu_conf' = conf
    /\ \E kept \in {pdu_conf_in_holder, FALSE} :
           pdu_wrapper' = IF kept THEN [pdu_wrapper EXCEPT !.pdu_conf = conf]
                          ELSE pdu_wrapper

\* the entity ids, the transmission modes and the sequence number the host
\* assigns through the setters
SourceIds == {ByteField(2, 7), ByteField(1, 1)}
SetterSeqNums == {ByteField(1, 5)}

\* what a setter leaves alone
SetterFrame ==
    /\ result' = Outcome("ok", "-")
    /\ UNCHANGED <<state, step, packet_ready, fp, transaction, remote_cfg,
                   current_req, rec_queue, seq_count, pdu_conf_in_holder>>
    /\ UNCHANGED <<max_bit_width, indication_cfg, source_file, mib, mibVars>>
    /\ UNCHANGED <<indications, emitted, reads, started, destVars>>

\* SourceHandler.source_id = source_id
SetSourceId ==
    /\ Alive
    /\ \E source_id \in SourceIds :
           /\ local_entity_id' = source_id
           /\ AssignPduConf([pdu_conf EXCEPT !.source_entity_id = source_id])
    /\ SetterFrame

\* SourceHandler.params.source_id = source_id
SetParamsSourceId ==
    /\ Alive
    /\ \E source_id \in SourceIds :
           AssignPduConf([pdu_conf EXCEPT !.source_entity_id = source_id])
    /\ UNCHANGED local_entity_id
    /\ SetterFrame

\* SourceHandler.params.transmission_mode = trans_mode
SetParamsTransmissionMode ==
    /\ Alive
    /\ \E trans_mode \in TransmissionModes :
           AssignPduConf([pdu_conf EXCEPT !.trans_mode = trans_mode])
    /\ UNCHANGED local_entity_id
    /\ SetterFrame

\* SourceHandler.params.transaction_seq_num = seq_num
SetParamsTransactionSeqNum ==
    /\ Alive
    /\ \E seq_num \in SetterSeqNums :
           AssignPduConf([pdu_conf EXCEPT !.transaction_seq_num = seq_num])
    /\ UNCHANGED local_entity_id
    /\ SetterFrame

\* a source file of one byte, sent in one segment without closure, with a
\* checksum the handler computes (CRC_32, CRC_32C) or one it does not
\* (MODULAR)
InitSetters ==
    /\ Init
    /\ source_file = FileOf(<<255>>)
    /\ mib.max_file_segment_len = 1
    /\ ~mib.closure_requested

\* the checksum CRC_32 or MODULAR
InitSourceId == InitSetters /\ mib.crc_type \in {"CRC_32", "MODULAR"}

\* a host that calls the handler's methods in any order, keeps a record of
\* the PDUs and assigns the handler's source_id at any time
NextSourceId ==
    \/ StartTransaction
    \/ RecordedStateMachine
    \/ ConfirmPacketSentAdvanceFsm
    \/ Reset
    \/ SetSourceId

SpecSourceId == InitSourceId /\ [][NextSourceId]_vars

\* a host that calls the handler's methods and the setters of its params in
\* any order
NextSetters ==
    \/ StartTransaction
    \/ StateMachine
    \/ ConfirmPacketSentAdvanceFsm
    \/ Reset
    \/ SetParamsSourceId
    \/ SetParamsTransmissionMode
    \/ SetParamsTransactionSeqNum

SpecSetters == InitSetters /\ [][NextSetters]_vars

\* a source file of one or two bytes, sent in segments of one byte without
\* closure, with the checksum CRC_32 or MODULAR
InitParamsReset ==
    /\ Init
    /\ source_file \in {FileOf(<<255>>), FileOf(<<255, 0>>)}
    /\ mib.crc_type \in {"CRC_32", "MODULAR"}
    /\ mib.max_file_segment_len = 1
    /\ ~mib.closure_requested

\* a host that calls the handler's methods in any order and also resets its
\* params and assigns their source_id
NextParamsReset ==
    \/ StartTransaction
    \/ StateMachine
    \/ ConfirmPacketSentAdvanceFsm
    \/ Reset
    \/ ParamsReset
    \/ SetParamsSourceId

SpecParamsReset == InitParamsReset /\ [][NextParamsReset]_vars

\* the remote entity is configured with a RemoteEntityCfg as mib.py declares
\* it, or with an object that also has the two attributes
\* default_transmission_mode and closure_requested; a source file of one
\* byte, sent in one segment with the checksum CRC_32
InitRemoteEntityCfg ==
    /\ state = "IDLE"
    /\ step = "IDLE"
    /\ packet_ready = FALSE
    /\ fp = FileParamsEmpty
    /\ transaction = None
    /\ remote_cfg = None
    /\ local_entity_id = ByteField(2, 1)
    /\ pdu_conf = [PduConfigEmpty EXCEPT !.source_entity_id = ByteField(2, 1)]
    /\ pdu_wrapper = NoPdu
    /\ pdu_conf_in_holder = FALSE
    /\ current_req = None
    /\ rec_queue = << >>
    /\ seq_count = 0
    /\ max_bit_width \in {16}
    /\ indication_cfg \in [eof_sent_indication_required : {TRUE}]
    /\ source_file = FileOf(<<255>>)
    /\ mib \in { c \in RemoteEntityCfg \cup MibProfiles :
                    c.crc_type = "CRC_32" /\ c.max_file_segment_len = 1 }
    /\ indications = << >>
    /\ emitted = << >>
    /\ reads = {}
    /\ result = Outcome("ok", "-")
    /\ started = 0
    /\ DestInit
    /\ MibInit

\* a host that calls the handler's methods in any order
NextRemoteEntityCfg ==
    \/ StartTransaction
    \/ StateMachine
    \/ ConfirmPacketSentAdvanceFsm
    \/ Reset

SpecRemoteEntityCfg == InitRemoteEntityCfg /\ [][NextRemoteEntityCfg]_vars

(* ------------------------------- claims --------------------------------- *)
\* the running transaction is a Class 1 transaction on an existing source
\* file with a checksum type the handler implements
Class1Transfer ==
    /\ source_file.exists
    /\ mib.crc_type \in {"CRC_32", "CRC_32C"} \/ Len(source_file.data) = 0

\* the user has got the indication name
Indicated(name) == \E i \in 1..Len(indications) : indications[i].name = name

\* em is the beginning of a sequence Metadata, File-Data*, EOF whose
\* File-Data PDUs start at offset 0, follow each other without gap or
\* overlap, and have covered [0, size) when the EOF PDU comes
PduOrderPrefix(em, size) ==
    /\ Len(em) >= 1 => em[1].pdu_type = "METADATA"
    /\ \A i \in 2..Len(em) :
          \/ /\ em[i].pdu_type = "FILE_DATA"
             /\ Len(em[i].file_data) >= 1
             /\ em[i].offset + Len(em[i].file_data) <= size
             /\ IF i = 2 THEN em[i].offset = 0
                ELSE /\ em[i - 1].pdu_type = "FILE_DATA"
                     /\ em[i].offset = em[i - 1].offset + Len(em[i - 1].file_data)
          \/ /\ em[i].pdu_type = "EOF"
             /\ i = Len(em)
             /\ IF i = 2 THEN size = 0
                ELSE /\ em[i - 1].pdu_type = "FILE_DATA"
                     /\ em[i - 1].offset + Len(em[i - 1].file_data) = size

\* the call the host made last returned
LastCallReturned == result.outcome \in ReturnValues

\* C1: Source PDU order.  In a Class 1 transaction driven by the host of the
\* Copy File procedure, every call made before the EOF PDU is confirmed returns
\* (so the next PDU is produced), the PDUs placed in the holder so far are the
\* beginning of Metadata, File-Data*, EOF with contiguous offsets from 0, and
\* once eof_sent_indication is raised the sequence is complete: it ends with
\* the one EOF PDU, after File-Data PDUs covering [0, file_size).
C1_PduOrder ==
    (Class1Transfer /\ state = "BUSY_CLASS_1_NACKED") =>
        /\ step # "NOTICE_OF_COMPLETION" => LastCallReturned
        /\ PduOrderPrefix(emitted, Len(source_file.data))
        /\ Indicated("eof_sent_indication") =>
               /\ Len(emitted) >= 2
               /\ emitted[Len(emitted)].pdu_type = "EOF"

\* a Class 1 transaction of a 4 byte file in segments of 3 bytes in which a
\* state_machine call failed or did not return before any PDU was produced
C1_Stuck ==
    /\ Class1Transfer /\ state = "BUSY_CLASS_1_NACKED"
    /\ Len(source_file.data) = 4 /\ mib.max_file_segment_len = 3
    /\ result.outcome \in {"IoError", "NoReturn"}
    /\ emitted = << >>

\* the source handler has finished its transaction
SourceFinished == state = "IDLE" /\ Indicated("transaction_finished_indication")

\* a further call of DestHandler.state_machine changes nothing
DestQuiescent == dest_state_machine(DCur, dest_indication_cfg) = DCur

\* the DestHandler has raised transaction_finished_indication with DATA_COMPLETE
DestFinishedDataComplete ==
    \E i \in 1..Len(dest_indications) :
        /\ dest_indications[i].name = "transaction_finished_indication"
        /\ dest_indications[i].delivery_code = "DATA_COMPLETE"

\* C2: Round trip.  Once the source handler has finished its transaction,
\* every PDU it produced has been handed to DestHandler.pass_packet and
\* further calls of DestHandler.state_machine change nothing, the destination
\* file is byte-equal to the source file and the DestHandler has raised
\* transaction_finished_indication carrying DATA_COMPLETE.
C2_RoundTrip ==
    (Class1Transfer /\ SourceFinished /\ link = << >> /\ DestQuiescent) =>
        /\ dest_file = source_file
        /\ DestFinishedDataComplete

\* a completed round trip of a file of two or more segments: the destination
\* file is written, the DestHandler rests in SENDING_FINISHED_PDU and has
\* raised no transaction_finished_indication
C2_NoFinishedIndication ==
    /\ Class1Transfer /\ SourceFinished /\ link = << >> /\ DestQuiescent
    /\ Len(source_file.data) > mib.max_file_segment_len
    /\ dest_file = source_file
    /\ dest.transaction = "SENDING_FINISHED_PDU"
    /\ ~DestFinishedDataComplete

\* C3: Segment length.  Every chunk the source handler has read, for a
\* File-Data PDU or in the CRC procedure, has the length
\* min(segment_len, size - offset).
C3_SegmentLength ==
    \A r \in reads :
        r.read_len = Min(mib.max_file_segment_len, Len(source_file.data) - r.offset)

\* the CRC procedure of a 4 byte file in segments of 3 bytes has asked for
\* (3 + 3) % 4 = 2 bytes at offset 3, where one byte is left
C3_ModuloChunk ==
    /\ Len(source_file.data) = 4 /\ mib.max_file_segment_len = 3
    /\ [op |-> "crc", offset |-> 3, read_len |-> 2] \in reads

\* C4: Offset bounds.  Between the calls of a source transaction FileParams
\* satisfies 0 <= offset <= size, every File-Data PDU emitted has
\* 0 <= offset < file_size and offset + read length <= file_size, and no read
\* the handler has requested reaches past the end of the file.
C4_OffsetBounds ==
    source_file.exists =>
        /\ 0 <= fp.offset /\ fp.offset <= fp.size
        /\ \A i \in 1..Len(emitted) :
               emitted[i].pdu_type = "FILE_DATA" =>
                   /\ 0 <= emitted[i].offset
                   /\ emitted[i].offset < Len(source_file.data)
                   /\ emitted[i].offset + Len(emitted[i].file_data) <= Len(source_file.data)
        /\ \A r \in reads : r.offset + r.read_len <= Len(source_file.data)

\* the part of C4 about FileParams and the File-Data PDUs alone
C4_FileDataInBounds ==
    source_file.exists =>
        /\ 0 <= fp.offset /\ fp.offset <= fp.size
        /\ \A i \in 1..Len(emitted) :
               emitted[i].pdu_type = "FILE_DATA" =>
                   /\ 0 <= emitted[i].offset
                   /\ emitted[i].offset < Len(source_file.data)
                   /\ emitted[i].offset + Len(emitted[i].file_data) <= Len(source_file.data)
        /\ \A r \in reads :
               r.op = "file_data" => r.offset + r.read_len <= Len(source_file.data)

\* a read of the CRC procedure that reaches past the end of the file
C4_ReadPastEnd ==
    /\ source_file.exists
    /\ \E r \in reads : r.op = "crc" /\ r.offset + r.read_len > Len(source_file.data)

C6_StateIffStep == (state = "IDLE") <=> (step = "IDLE")

\* C6: Source state invariant.  Between public calls, state == IDLE implies
\* step == IDLE; a handler whose step is IDLE while its state is busy has
\* started no transaction step yet (its FileParams are still empty).
C6_IdleStateImpliesIdleStep ==
    /\ state = "IDLE" => step = "IDLE"
    /\ (step = "IDLE" /\ state # "IDLE") => fp = FileParamsEmpty

\* reset has brought a handler back to IDLE in the middle of a transaction
C6_ResetInTransaction ==
    /\ state = "IDLE" /\ step = "IDLE"
    /\ result = Outcome("ok", "-")
    /\ Indicated("transaction_indication")
    /\ ~Indicated("transaction_finished_indication")
    /\ pdu_wrapper.pdu_type = "FILE_DATA"

\* the step advance_fsm is called in
C7_Call == AdvanceFsm /\ packet_ready

\* C7: advance_fsm called while packet_ready is true fails with
\* PacketSendNotConfirmed and leaves state, step, packet_ready, FileParams,
\* the holder, the receive queue and the indications raised unchanged.
C7_AdvanceFsmGuard ==
    [][C7_Call =>
         /\ result'.outcome = "PacketSendNotConfirmed"
         /\ UNCHANGED <<state, step, packet_ready, fp, pdu_wrapper, rec_queue,
                        indications, transaction, pdu_conf, seq_count>>]_vars

\* advance_fsm has failed with the EOF PDU waiting in the holder
C7_AdvanceFsmRefused ==
    /\ result = Outcome("PacketSendNotConfirmed", "advance_fsm")
    /\ packet_ready
    /\ step = "SENDING_EOF"
    /\ pdu_wrapper.pdu_type = "EOF"

\* C8: state_machine called in a Class 1 transaction while packet_ready is
\* true returns normally and leaves the holder, state, step, packet_ready and
\* FileParams unchanged.
C8_StateMachineNoOp ==
    [][(StateMachine /\ packet_ready /\ state = "BUSY_CLASS_1_NACKED") =>
         /\ result'.outcome \in ReturnValues
         /\ UNCHANGED <<pdu_wrapper, state, step, packet_ready, fp>>]_vars

\* C8, the frame alone: such a call leaves the holder, state, step,
\* packet_ready and FileParams unchanged, however it ends.
C8_StateMachineFrame ==
    [][(StateMachine /\ packet_ready /\ state = "BUSY_CLASS_1_NACKED") =>
         UNCHANGED <<pdu_wrapper, state, step, packet_ready, fp>>]_vars

\* state_machine has raised PacketSendNotConfirmed in step SENDING_EOF with
\* the last File-Data PDU still in the holder: the call has moved the step
C8_StepMoved ==
    /\ result = Outcome("PacketSendNotConfirmed", "state_machine")
    /\ packet_ready
    /\ step = "SENDING_EOF"
    /\ pdu_wrapper.pdu_type = "FILE_DATA"

\* start_transaction is called with a Put request while the handler is busy
C9_Call ==
    /\ state # "IDLE"
    /\ Alive
    /\ \E wrapper \in PutRequests :
           Commit(start_transaction(NewRecord(Cur, wrapper), wrapper, mib),
                  "start_transaction")

\* C9: One transaction at a time.  start_transaction with a Put request while
\* state is not IDLE returns false and leaves the stored request, the remote
\* configuration, the transmission mode, state, step, packet_ready,
\* FileParams and the holder unchanged.
C9_BusyStartRefused ==
    [][C9_Call =>
         /\ result' = Outcome("False", "-")
         /\ UNCHANGED <<current_req, remote_cfg, pdu_conf, state, step,
                        packet_ready, fp, pdu_wrapper, transaction, rec_queue,
                        indications>>]_vars

\* start_transaction has returned false in the middle of a transaction
C9_RefusedWhileSending ==
    /\ result = Outcome("False", "-")
    /\ state = "BUSY_CLASS_1_NACKED"
    /\ step = "SENDING_FILE_DATA"
    /\ packet_ready

\* whether the remote entity's configuration has a default mode
C10_HasDefault == HasAttr(mib, "default_transmission_mode")

\* the mode start_transaction has to select for a Put request: the request's
\* mode when it is set and the remote entity's default otherwise, which is
\* no mode when the configuration has none
C10_Mode(wrapper) ==
    IF wrapper.trans_mode \in TransmissionModes THEN wrapper.trans_mode
    ELSE IF C10_HasDefault THEN mib.default_transmission_mode
    ELSE "NONE"

\* start_transaction is called with the Put request wrapper on the idle
\* handler
C10_Call(wrapper) ==
    /\ state = "IDLE"
    /\ Alive
    /\ Commit(start_transaction(NewRecord(Cur, wrapper), wrapper, mib), "start_transaction")

C10_SelectionByAttribute ==
    [][\A wrapper \in PutRequests :
         C10_Call(wrapper)
         => /\ current_req' = wrapper /\ remote_cfg' = mib /\ ~packet_ready'
            /\ C10_Mode(wrapper) \in TransmissionModes =>
                  /\ state' = (IF C10_Mode(wrapper) = "UNACKNOWLEDGED"
                               THEN "BUSY_CLASS_1_NACKED" ELSE "BUSY_CLASS_2_ACKED")
                  /\ pdu_conf'.trans_mode = C10_Mode(wrapper)
                  /\ result' = Outcome("True", "-")
            /\ (C10_Mode(wrapper) \notin TransmissionModes /\ C10_HasDefault) =>
                  /\ state' = "IDLE"
                  /\ pdu_conf'.trans_mode = "NONE"
                  /\ result' = Outcome("ValueError", "start_transaction")
            /\ (wrapper.trans_mode = "NONE" /\ ~C10_HasDefault) =>
                  /\ state' = "IDLE"
                  /\ pdu_conf'.trans_mode = pdu_conf.trans_mode
                  /\ result' = Outcome("AttributeError", "start_transaction")]_vars

\* a transaction started in the default mode of a configuration that has
\* one: the Put request sets none
C10_DefaultModeUsed ==
    /\ result = Outcome("True", "-")
    /\ current_req.trans_mode = "NONE"
    /\ HasAttr(remote_cfg, "default_transmission_mode")
    /\ remote_cfg.default_transmission_mode = "UNACKNOWLEDGED"
    /\ state = "BUSY_CLASS_1_NACKED"
    /\ step = "IDLE"

\* the names of the indications the user has got, in the order they came
IndicationNames == [i \in 1..Len(indications) |-> indications[i].name]

\* the indications of a complete Class 1 transaction
Class1Indications ==
    <<"transaction_indication", "eof_sent_indication", "transaction_finished_indication">>

\* transaction_finished_indication(NO_ERROR, DATA_COMPLETE) of transaction tid
FinishedIndication(tid) ==
    [name |-> "transaction_finished_indication", transaction_id |-> tid,
     condition_code |-> "NO_ERROR", file_status |-> "FILE_STATUS_UNREPORTED",
     delivery_code |-> "DATA_COMPLETE"]

\* whether the remote configuration of the transaction requests closure; a
\* configuration without the attribute closure_requested requests none
C11_ClosureRequested ==
    HasAttr(remote_cfg, "closure_requested") /\ remote_cfg.closure_requested

\* state_machine is called in step NOTICE_OF_COMPLETION of a Class 1
\* transaction whose remote configuration does not request closure
C11_Call ==
    /\ state = "BUSY_CLASS_1_NACKED"
    /\ step = "NOTICE_OF_COMPLETION"
    /\ ~C11_ClosureRequested
    /\ StateMachine

\* C11: Source completion without closure.  The state_machine call in step
\* NOTICE_OF_COMPLETION of a Class 1 transaction without closure returns,
\* raises transaction_finished_indication(NO_ERROR, DATA_COMPLETE) of the
\* transaction and leaves state IDLE and step IDLE; at every moment the
\* indications of the transaction are a beginning of transaction_indication,
\* eof_sent_indication, transaction_finished_indication, so each comes once
\* and in this order.
C11_CompletionWithoutClosure ==
    /\ [](/\ Len(indications) <= 3
          /\ IndicationNames = SubSeq(Class1Indications, 1, Len(indications)))
    /\ [][C11_Call =>
            /\ result'.outcome \in ReturnValues
            /\ indications' = Append(indications, FinishedIndication(transaction))
            /\ state' = "IDLE"
            /\ step' = "IDLE"]_vars

\* a Class 1 transaction for a remote entity configured with a
\* RemoteEntityCfg has come to step NOTICE_OF_COMPLETION, and state_machine
\* has raised AttributeError where it reads closure_requested: no
\* transaction_finished_indication, and the handler is still busy
C11_NoFinishedIndication ==
    /\ result = Outcome("AttributeError", "state_machine")
    /\ state = "BUSY_CLASS_1_NACKED"
    /\ step = "NOTICE_OF_COMPLETION"
    /\ remote_cfg \in RemoteEntityCfg
    /\ IndicationNames = <<"transaction_indication", "eof_sent_indication">>

\* What state_machine does in step NOTICE_OF_COMPLETION of a Class 1
\* transaction: for a configuration whose attribute closure_requested is
\* false it raises the indication and resets the handler as claimed; for a
\* configuration without the attribute it raises AttributeError and leaves
\* the indications, state and step as they are.  The indications of a
\* transaction are always a beginning of the three in the claimed order.
C11_CompletionByAttribute ==
    /\ [](/\ Len(indications) <= 3
          /\ IndicationNames = SubSeq(Class1Indications, 1, Len(indications)))
    /\ [][(C11_Call /\ HasAttr(remote_cfg, "closure_requested")) =>
            /\ result'.outcome \in ReturnValues
            /\ indications' = Append(indications, FinishedIndication(transaction))
            /\ state' = "IDLE"
            /\ step' = "IDLE"]_vars
    /\ [][(C11_Call /\ ~HasAttr(remote_cfg, "closure_requested")) =>
            /\ result' = Outcome("AttributeError", "state_machine")
            /\ UNCHANGED <<indications, state, step>>]_vars

\* a transaction without closure has finished: the three indications are
\* raised and the handler is idle again
C11_Finished ==
    /\ HasAttr(mib, "closure_requested")
    /\ ~mib.closure_requested
    /\ result = Outcome("ok", "-")
    /\ state = "IDLE" /\ step = "IDLE"
    /\ Len(indications) = 3
    /\ indications[3].name = "transaction_finished_indication"
    /\ indications[3].delivery_code = "DATA_COMPLETE"

\* the receive queue holds a Finished PDU
FinishedPduQueued == \E i \in 1..Len(rec_queue) : rec_queue[i].pdu_type = "FINISHED"

\* state_machine is called in step NOTICE_OF_COMPLETION of a Class 1
\* transaction whose remote configuration requests closure
C12_Call ==
    /\ state = "BUSY_CLASS_1_NACKED"
    /\ step = "NOTICE_OF_COMPLETION"
    /\ remote_cfg.closure_requested
    /\ StateMachine

\* C12: Source completion with closure.  In step NOTICE_OF_COMPLETION of a
\* transaction with closure a state_machine call made while the receive queue
\* holds no Finished PDU returns and leaves state and step unchanged, and a
\* state_machine call made once a Finished PDU is in the queue raises
\* transaction_finished_indication(NO_ERROR, DATA_COMPLETE) and leaves state
\* IDLE and step IDLE.
C12_CompletionWithClosure ==
    [][C12_Call =>
         IF FinishedPduQueued
         THEN /\ indications' = Append(indications, FinishedIndication(transaction))
              /\ state' = "IDLE"
              /\ step' = "IDLE"
         ELSE /\ result'.outcome \in ReturnValues
              /\ UNCHANGED <<state, step>>]_vars

\* C12, the wait alone: the call made while no Finished PDU is queued returns
C12_AwaitReturns ==
    [][(C12_Call /\ ~FinishedPduQueued) => result'.outcome \in ReturnValues]_vars

\* state_machine has returned with a Finished PDU in the receive queue, and
\* the transaction is still in NOTICE_OF_COMPLETION with nothing raised
C12_FinishedIgnored ==
    /\ result = Outcome("ok", "-")
    /\ state = "BUSY_CLASS_1_NACKED"
    /\ step = "NOTICE_OF_COMPLETION"
    /\ remote_cfg.closure_requested
    /\ FinishedPduQueued
    /\ IndicationNames = <<"transaction_indication", "eof_sent_indication">>
    /\ pdu_wrapper.pdu_type = "EOF"

\* state_machine has failed on the empty receive queue
C12_EmptyQueueRaises ==
    /\ result = Outcome("IndexError", "state_machine")
    /\ step = "NOTICE_OF_COMPLETION"
    /\ rec_queue = << >>

\* the DestHandler has been handed a Metadata PDU and an EOF PDU that announces
\* no error
DestMetadataAndEofAccepted ==
    /\ dest.file_directives_dict["METADATA"] # << >>
    /\ \E i \in 1..Len(dest.file_directives_dict["EOF"]) :
           dest.file_directives_dict["EOF"][i].condition_code = "NO_ERROR"

\* the DestHandler has raised transaction_finished_indication
DestFinishedRaised ==
    \E i \in 1..Len(dest_indications) :
        dest_indications[i].name = "transaction_finished_indication"

\* a Finished PDU waits in the DestHandler's holder to be sent
DestFinishedPduReady == dest.packet_ready /\ dest.pdu_holder.pdu_type = "FINISHED"

\* C13: Destination completion.  Once the DestHandler has been handed a
\* Metadata PDU and an EOF PDU with condition NO_ERROR, repeated state_machine
\* calls with confirm_packet_sent and advance_fsm lead to a state where
\* transaction_finished_indication has been raised and the handler is back in
\* state IDLE, step IDLE; when the Metadata PDU requested closure they lead to
\* a Finished PDU in the holder with packet_ready set, and without closure
\* requested no Finished PDU is ever placed.
C13_DestCompletion ==
    /\ DestMetadataAndEofAccepted ~>
           (DestFinishedRaised /\ dest.state = "IDLE" /\ dest.transaction = "IDLE")
    /\ (DestMetadataAndEofAccepted /\ dest.state = "BUSY_CLASS_1_NACKED"
            /\ dest.closure_requested) ~> DestFinishedPduReady
    /\ [](DestFinishedPduReady => dest.closure_requested)

\* the DestHandler of a transfer with closure requested rests in
\* SENDING_FINISHED_PDU after a further state_machine call: nothing is in the
\* holder, nothing is raised, the handler is not idle
C13_RestsInSendingFinished ==
    /\ DestMetadataAndEofAccepted
    /\ dest.closure_requested
    /\ dest.transaction = "SENDING_FINISHED_PDU"
    /\ dest.state = "BUSY_CLASS_1_NACKED"
    /\ dest_state_machine(DCur, dest_indication_cfg) = DCur
    /\ ~dest.packet_ready
    /\ dest.pdu_holder = NoPdu
    /\ ~DestFinishedRaised

\* the receiving host calls state_machine in step RECEIVING_FILE_DATA of a
\* Class 1 transaction with an EOF PDU that announces no error in the table
DestEofCall ==
    /\ dest.state = "BUSY_CLASS_1_NACKED"
    /\ dest.transaction = "RECEIVING_FILE_DATA"
    /\ \E i \in 1..Len(dest.file_directives_dict["EOF"]) :
           dest.file_directives_dict["EOF"][i].condition_code = "NO_ERROR"
    /\ DestHostStateMachine

\* C14: Destination checksum verification.  The state_machine call that acts
\* on the EOF PDU of a transfer without closure passes TRANSFER_COMPLETION and
\* raises transaction_finished_indication: with DATA_COMPLETE and NO_ERROR when
\* the checksum recomputed over the destination file equals the checksum
\* recorded from the EOF PDU, and with FILE_CHECKSUM_FAILURE when they differ.
C14_ChecksumVerification ==
    [][(DestEofCall /\ ~dest.closure_requested) =>
         \E i \in (Len(dest_indications) + 1)..Len(dest_indications') :
             /\ dest_indications'[i].name = "transaction_finished_indication"
             /\ IF ChecksumOf(dest'.checksum_type, dest_file'.data) = dest'.fp.crc32
                THEN /\ dest_indications'[i].delivery_code = "DATA_COMPLETE"
                     /\ dest_indications'[i].condition_code = "NO_ERROR"
                ELSE \/ dest_indications'[i].condition_code = "FILE_CHECKSUM_FAILURE"
                     \/ dest_indications'[i].file_status = "FILE_CHECKSUM_FAILURE"]_vars

\* a transfer without closure has passed TRANSFER_COMPLETION with a
\* destination file whose checksum is not the one of the EOF PDU, and nothing
\* has been raised
C14_MismatchUnnoticed ==
    /\ dest.state = "BUSY_CLASS_1_NACKED"
    /\ dest.transaction = "SENDING_FINISHED_PDU"
    /\ ~dest.closure_requested
    /\ dest_file.exists
    /\ dest.fp.crc32 = ChecksumOf("CRC_32", <<255, 255>>)
    /\ ChecksumOf(dest.checksum_type, dest_file.data) # dest.fp.crc32
    /\ ~DestFinishedRaised

\* the same with a destination file whose checksum is the one of the EOF PDU
C14_MatchUnnoticed ==
    /\ dest.state = "BUSY_CLASS_1_NACKED"
    /\ dest.transaction = "SENDING_FINISHED_PDU"
    /\ ~dest.closure_requested
    /\ dest_file = FileOf(<<255, 255>>)
    /\ ChecksumOf(dest.checksum_type, dest_file.data) = dest.fp.crc32
    /\ ~DestFinishedRaised

\* the receiving host calls state_machine in step RECEIVING_FILE_DATA of a
\* Class 1 transaction
DestReceivingCall ==
    /\ dest.state = "BUSY_CLASS_1_NACKED"
    /\ dest.transaction = "RECEIVING_FILE_DATA"
    /\ DestHostStateMachine

\* the number of file_segment_recv_indication in a sequence of indications
SegmentReports(ind) ==
    Cardinality({ i \in 1..Len(ind) : ind[i].name = "file_segment_recv_indication" })

\* C15: Destination queue draining.  A state_machine call in
\* RECEIVING_FILE_DATA leaves the File-Data queue empty and, when the
\* indication is enabled, reports each PDU that was in the queue once; with
\* the queue drained by every call, each PDU handed to pass_packet is written
\* and reported exactly once over any number of calls.
C15_QueueDraining ==
    [][DestReceivingCall =>
         /\ dest'.file_data_deque = << >>
         /\ dest_indication_cfg.file_segment_recvd_indication_required =>
                SegmentReports(dest_indications') =
                    SegmentReports(dest_indications) + Len(dest.file_data_deque)]_vars

\* the DestHandler has been handed one File-Data PDU, which is still in the
\* queue and has been reported to the user twice
C15_ReportedTwice ==
    /\ dest_indication_cfg.file_segment_recvd_indication_required
    /\ dest.transaction = "RECEIVING_FILE_DATA"
    /\ Len(dest.file_data_deque) = 1
    /\ SegmentReports(dest_indications) = 2
    /\ dest_file = FileOf(<<255>>)

\* the file after the PDUs of a queue have been written to it in queue order
RECURSIVE WrittenAll(_, _)
WrittenAll(file, pdus) ==
    IF pdus = << >> THEN file
    ELSE WrittenAll(WriteData(file, Head(pdus).file_data, Head(pdus).offset), Tail(pdus))

\* the indications a call has raised
RaisedByCall == SubSeq(dest_indications', Len(dest_indications) + 1, Len(dest_indications'))

\* C16: EOF before data.  The state_machine call that acts on the EOF PDU has
\* written every File-Data PDU handed to pass_packet before the call: the
\* destination file holds them all, and every file_segment_recv_indication of
\* the call (one for each PDU, when enabled) comes before the
\* eof_recv_indication; only then the checksum and size of the EOF PDU are
\* recorded and the step leaves RECEIVING_FILE_DATA.
C16_EofAfterData ==
    [][DestEofCall =>
         /\ dest_file' = WrittenAll(dest_file, dest.file_data_deque)
         /\ dest_indication_cfg.file_segment_recvd_indication_required =>
                SegmentReports(RaisedByCall) = Len(dest.file_data_deque)
         /\ \E j \in 1..Len(RaisedByCall) : RaisedByCall[j].name = "eof_recv_indication"
         /\ \A i, j \in 1..Len(RaisedByCall) :
                (/\ RaisedByCall[i].name = "file_segment_recv_indication"
                 /\ RaisedByCall[j].name = "eof_recv_indication") => i < j
         /\ dest'.fp.crc32 # << >>
         /\ dest'.transaction # "RECEIVING_FILE_DATA"]_vars

\* the EOF PDU has been acted on after two File-Data PDUs: both are reported
\* before it and the destination file holds both
C16_DataThenEof ==
    /\ dest_indication_cfg.file_segment_recvd_indication_required
    /\ dest.transaction = "SENDING_FINISHED_PDU"
    /\ Len(dest.file_data_deque) = 2
    /\ Len(dest_indications) = 4
    /\ dest_indications[2].name = "file_segment_recv_indication"
    /\ dest_indications[3].name = "file_segment_recv_indication"
    /\ dest_indications[4].name = "eof_recv_indication"
    /\ dest_file = FileOf(<<255, 255>>)

\* the File-Data PDUs of a queue have pairwise disjoint byte ranges
NonOverlapping(pdus) ==
    \A i, j \in 1..Len(pdus) :
        i < j => \/ pdus[i].offset + Len(pdus[i].file_data) <= pdus[j].offset
                 \/ pdus[j].offset + Len(pdus[j].file_data) <= pdus[i].offset

\* the content a set of File-Data PDUs with disjoint ranges describes: each
\* byte from the PDU whose range holds it, zero where there is none
ContentOf(pdus) ==
    LET S == { pdus[i] : i \in 1..Len(pdus) }
        Covers(q, k) == q.offset < k /\ k <= q.offset + Len(q.file_data)
        n == CHOOSE m \in { q.offset + Len(q.file_data) : q \in S } :
                 \A q \in S : q.offset + Len(q.file_data) <= m
    IN  SubSeq([k \in 1..n |->
                   IF \E q \in S : Covers(q, k)
                   THEN LET q == CHOOSE r \in S : Covers(r, k) IN q.file_data[k - q.offset]
                   ELSE 0], 1, n)

\* C17: Out-of-order data.  After a state_machine call in RECEIVING_FILE_DATA
\* on a queue of File-Data PDUs with pairwise disjoint byte ranges the content
\* of the destination file is the one the set of PDUs describes, each PDU at
\* its own offset, in whatever order the PDUs were handed to pass_packet.
C17_OutOfOrderData ==
    [][(/\ DestReceivingCall
        /\ dest.file_data_deque # << >>
        /\ NonOverlapping(dest.file_data_deque)) =>
          /\ dest_file'.exists
          /\ dest_file'.data = ContentOf(dest.file_data_deque)]_vars

\* two File-Data PDUs have arrived in descending order of their offsets and
\* are written: bytes 2 and 3 from the first, byte 1 from the second
C17_DescendingOffsets ==
    /\ Len(dest.file_data_deque) = 2
    /\ dest.file_data_deque[1].offset = 1
    /\ dest.file_data_deque[2].offset = 0
    /\ NonOverlapping(dest.file_data_deque)
    /\ dest_file = FileOf(<<255, 0, 255>>)

\* pass_packet is called with pdu
C18_Call(pdu) ==
    /\ Alive
    /\ Commit(pass_packet(Cur, pdu), "pass_packet")
    /\ UNCHANGED <<envVars, started, destVars>>

\* C18: Source pass_packet.  A File-Data PDU or a Metadata PDU handed to
\* pass_packet is rejected with InvalidPduForSourceHandler and leaves the
\* receive queue, state, step and packet_ready unchanged; every other file
\* directive is put at the end of the receive queue and the call returns; no
\* step of the handler takes a PDU out of the queue or reorders it, so the
\* queue holds the accepted PDUs in arrival order.
C18_SourcePassPacket ==
    /\ [][\A pdu \in InboxPdus :
            C18_Call(pdu) =>
                IF pdu.pdu_type \in {"FILE_DATA", "METADATA"}
                THEN /\ result' = Outcome("InvalidPduForSourceHandler", "pass_packet")
                     /\ UNCHANGED <<rec_queue, state, step, packet_ready>>
                ELSE /\ result'.outcome \in ReturnValues
                     /\ rec_queue' = Append(rec_queue, pdu)
                     /\ UNCHANGED <<state, step, packet_ready>>]_vars
    /\ [][\/ rec_queue' = rec_queue
          \/ \E pdu \in InboxPdus : rec_queue' = Append(rec_queue, pdu)]_vars

\* a PDU has been rejected in the middle of a transaction, after a Finished
\* and a NAK PDU were accepted: the queue holds the two in arrival order
C18_RejectedAfterTwo ==
    /\ result = Outcome("InvalidPduForSourceHandler", "pass_packet")
    /\ rec_queue = <<[pdu_type |-> "FINISHED"], [pdu_type |-> "NAK"]>>
    /\ state = "BUSY_CLASS_1_NACKED"
    /\ step = "SENDING_FILE_DATA"
    /\ packet_ready

\* start_transaction is called on the idle handler with a Put request whose
\* transmission mode, or else the remote entity's default, is a recognised mode
C19_StartCall(wrapper) ==
    /\ state = "IDLE"
    /\ C10_Mode(wrapper) \in TransmissionModes
    /\ Alive
    /\ Commit(start_transaction(NewRecord(Cur, wrapper), wrapper, mib), "start_transaction")

\* the steps of a transaction before its first File-Data PDU
C19_BeforeFileData ==
    \/ step \in {"IDLE", "TRANSACTION_START", "CRC_PROCEDURE", "SENDING_METADATA"}
    \/ step = "SENDING_FILE_DATA" /\ pdu_wrapper.pdu_type = "METADATA"

\* C19: reset.  Called in any state and step, reset leaves state IDLE and
\* step IDLE, FileParams cleared (offset 0, size 0, segment_len 0, empty
\* checksum), the transaction id and the remote configuration cleared and an
\* empty PduConfig.  A start_transaction with a valid Put request on the idle
\* handler returns true, and the transaction it starts has offset 0 until its
\* first File-Data PDU, which is emitted at offset 0.
C19_Reset ==
    /\ [][Reset =>
            /\ state' = "IDLE"
            /\ step' = "IDLE"
            /\ fp' = FileParamsEmpty
            /\ transaction' = None
            /\ remote_cfg' = None
            /\ pdu_conf' = PduConfigEmpty]_vars
    /\ [][\A wrapper \in PutRequests :
            C19_StartCall(wrapper) =>
                /\ result' = Outcome("True", "-")
                /\ state' # "IDLE"
                /\ ~packet_ready'
                /\ fp'.offset = 0]_vars
    /\ []((state # "IDLE" /\ C19_BeforeFileData) => fp.offset = 0)
    /\ [][(/\ state = "BUSY_CLASS_1_NACKED"
           /\ pdu_wrapper.pdu_type = "METADATA"
           /\ pdu_wrapper'.pdu_type = "FILE_DATA"
           /\ StateMachine) => pdu_wrapper'.offset = 0]_vars

\* reset has been called in the middle of the first transaction, after the
\* File-Data PDU at offset 1 was placed in the holder and before it was
\* confirmed: the handler is idle with everything cleared, and the host may
\* start another transaction
C19_ResetWithPduPending ==
    /\ state = "IDLE" /\ step = "IDLE"
    /\ packet_ready
    /\ pdu_wrapper.pdu_type = "FILE_DATA"
    /\ pdu_wrapper.offset = 1
    /\ fp = FileParamsEmpty
    /\ transaction = None /\ remote_cfg = None
    /\ pdu_conf = PduConfigEmpty
    /\ started = 1

\* the transaction started after a reset has emitted its first File-Data PDU,
\* at offset 0, with the PduConfig that reset has left
C19_RestartedFromZero ==
    /\ started = 2
    /\ state = "BUSY_CLASS_1_NACKED"
    /\ step = "SENDING_FILE_DATA"
    /\ packet_ready
    /\ pdu_wrapper.pdu_type = "FILE_DATA"
    /\ pdu_wrapper.offset = 0
    /\ pdu_conf.source_entity_id = PduConfigEmpty.source_entity_id

\* state_machine has failed on the width of the sequence number provider
SeqNumWidthFailure == result = Outcome("ValueError", "state_machine")

\* with a provider of one of the widths in valid, no state_machine call fails
\* on the width and the sequence number of the transaction id is a field of
\* max_bit_width / 8 bytes; with any other width the first state_machine call
\* of a transaction fails and the handler has no transaction id, has raised no
\* transaction_indication and has emitted no PDU
SeqNumWidthRule(valid) ==
    IF max_bit_width \in valid
    THEN /\ ~SeqNumWidthFailure
         /\ transaction # None => transaction.seq_num.byte_len = max_bit_width \div 8
    ELSE /\ step \in {"IDLE", "TRANSACTION_START"}
         /\ transaction = None
         /\ ~Indicated("transaction_indication")
         /\ emitted = << >>

\* C20: Sequence-number width.  Obtaining the next transfer sequence number
\* succeeds with a field of max_bit_width / 8 bytes for the widths 8, 16, 32
\* and 64 and fails for every other width; a failure starts no transaction.
C20_SeqNumWidth == SeqNumWidthRule({8, 16, 32, 64})

\* the same with the widths the handler accepts: 8, 16 and 32
C20_ThreeWidths == SeqNumWidthRule({8, 16, 32})

\* the first state_machine call of a transaction with a 64 bit provider has
\* failed, after it took a number from the provider
C20_Width64Fails ==
    /\ max_bit_width = 64
    /\ SeqNumWidthFailure
    /\ state = "BUSY_CLASS_1_NACKED"
    /\ step = "TRANSACTION_START"
    /\ seq_count = 1
    /\ transaction = None

(* C21: eof_sent_indication is raised only when the local entity's
   indication_cfg.eof_sent_indication_required is true: with the flag false
   the user never gets an eof_sent_indication. *)
C21_EofSentGating ==
    ~indication_cfg.eof_sent_indication_required => ~Indicated("eof_sent_indication")

\* the flag is false, the EOF PDU was confirmed, and advance_fsm has raised
\* eof_sent_indication all the same
C21_RaisedWithFlagCleared ==
    /\ ~indication_cfg.eof_sent_indication_required
    /\ step = "NOTICE_OF_COMPLETION"
    /\ result = Outcome("ok", "-")
    /\ Indicated("eof_sent_indication")
    /\ indications[Len(indications)] =
           [name |-> "eof_sent_indication", transaction_id |-> transaction]

\* a state_machine call of the host that calls in any order, in which the
\* handler has placed n PDUs in the holder
StateMachinePlaces(n) ==
    /\ Alive
    /\ \E short \in BOOLEAN :
           LET h == state_machine(Cur, source_file, short, max_bit_width, local_entity_id)
           IN  /\ Len(h.emitted) = Len(emitted) + n
               /\ Commit([h EXCEPT !.emitted = emitted], "state_machine")

\* packet_ready becomes true in this step
PacketReadySet == ~packet_ready /\ packet_ready'

\* packet_ready becomes false in this step
PacketReadyCleared == packet_ready /\ ~packet_ready'

\* start_transaction called with a Put request on the idle handler
StartOnIdle ==
    /\ state = "IDLE"
    /\ StartTransaction
    /\ current_req'.request_type = "PUT"

(* C22: packet_ready becomes true only in a state_machine call that has
   placed a PDU in the holder, and becomes false only in confirm_packet_sent
   or confirm_packet_sent_advance_fsm; state_machine, advance_fsm,
   pass_packet, reset and start_transaction never change it from true to
   false. *)
C22_PacketReadyHandshake ==
    [][ /\ PacketReadySet =>
               StateMachinePlaces(1) /\ pdu_wrapper' # NoPdu /\ result'.outcome = "ok"
        /\ PacketReadyCleared =>
               ConfirmPacketSent \/ ConfirmPacketSentAdvanceFsm ]_vars

(* What the code does: packet_ready becomes true only in a state_machine
   call that has placed a PDU in the holder, and becomes false in
   confirm_packet_sent, in confirm_packet_sent_advance_fsm, and also in a
   start_transaction called with a Put request on the idle handler, which
   finds it true when reset was called with a PDU unconfirmed. *)
C22_ClearedByConfirmOrStart ==
    [][ /\ PacketReadySet =>
               StateMachinePlaces(1) /\ pdu_wrapper' # NoPdu /\ result'.outcome = "ok"
        /\ PacketReadyCleared =>
               ConfirmPacketSent \/ ConfirmPacketSentAdvanceFsm \/ StartOnIdle ]_vars

\* after a reset with a PDU unconfirmed the handler is idle with packet_ready
\* still true, and start_transaction is about to clear it
C22_StartClearsPending ==
    /\ state = "IDLE"
    /\ packet_ready
    /\ pdu_wrapper # NoPdu
    /\ result = Outcome("ok", "-")
    /\ ENABLED (StartOnIdle /\ PacketReadyCleared)

\* the fields of the source handler other than packet_ready
SourceFieldsBut == <<state, step, fp, transaction, remote_cfg, pdu_conf, pdu_wrapper,
                     current_req, rec_queue, seq_count, pdu_conf_in_holder>>

\* confirm_packet_sent applied once and twice to the source handler as it is,
\* with packet_ready set to pr: twice is once, once clears packet_ready and
\* changes nothing else, and the call does not raise
SourceConfirmTwice(pr) ==
    LET h == [Cur EXCEPT !.packet_ready = pr]
        once == confirm_packet_sent(h)
    IN  /\ confirm_packet_sent(once) = once
        /\ once = [h EXCEPT !.packet_ready = FALSE]
        /\ Return(once).result = "ok"

\* the same for the destination handler
DestConfirmTwice(pr) ==
    LET d == [DCur EXCEPT !.h.packet_ready = pr]
        once == dest_confirm_packet_sent(d)
    IN  /\ dest_confirm_packet_sent(once) = once
        /\ once = [d EXCEPT !.h.packet_ready = FALSE]

(* C23: confirm_packet_sent is idempotent on both handlers.  From every state,
   with packet_ready true or false, two calls in a row leave the handler as
   one call does: packet_ready false and everything else unchanged; the call
   never fails; and a call of the host on the handler whose packet_ready is
   already false changes nothing. *)
C23_ConfirmIdempotent ==
    /\ [](\A pr \in BOOLEAN : SourceConfirmTwice(pr) /\ DestConfirmTwice(pr))
    /\ [][ /\ ConfirmPacketSent =>
                  /\ ~packet_ready'
                  /\ result' = Outcome("ok", "-")
                  /\ UNCHANGED <<SourceFieldsBut, indications, emitted, reads>>
                  /\ ~packet_ready => UNCHANGED srcVars
           /\ DestConfirmPacketSent =>
                  /\ dest' = [dest EXCEPT !.packet_ready = FALSE]
                  /\ UNCHANGED <<dest_file, dest_indications>> ]_vars

\* the sending host has confirmed the Metadata PDU without advancing, and a
\* second confirm_packet_sent is a call on a handler that is already confirmed
C23_ConfirmedNotAdvanced ==
    /\ state = "BUSY_CLASS_1_NACKED"
    /\ step = "SENDING_METADATA"
    /\ pdu_wrapper # NoPdu
    /\ ~packet_ready
    /\ result = Outcome("ok", "-")
    /\ dest.transaction # "IDLE"
    /\ ENABLED (ConfirmPacketSent /\ UNCHANGED vars)

\* a step that can be a state_machine call: it leaves the receive queue, the
\* request and the number of transactions, and no other method has raised
CanBeStateMachine ==
    /\ result'.raised_in \in {"-", "state_machine"}
    /\ rec_queue' = rec_queue
    /\ current_req' = current_req
    /\ started' = started

\* a state_machine call that has placed no PDU and left the holder as it was,
\* or has placed one PDU and returned normally with packet_ready true
StateMachinePlacesAtMostOne ==
    \E short \in BOOLEAN :
        LET h == state_machine(Cur, source_file, short, max_bit_width, local_entity_id)
        IN  /\ Commit([h EXCEPT !.emitted = emitted], "state_machine")
            /\ \/ Len(h.emitted) = Len(emitted) /\ h.pdu_wrapper = pdu_wrapper
               \/ /\ Len(h.emitted) = Len(emitted) + 1
                  /\ h.pdu_wrapper = h.emitted[Len(h.emitted)]
                  /\ h.packet_ready
                  /\ h.result = "ok"

(* C24: under any sequence of host calls a state_machine call places at most
   one PDU in the holder; when it places one it returns normally with
   packet_ready true, and when it places none the holder is as it was. *)
C24_OnePduPerCall ==
    [][ CanBeStateMachine /\ StateMachine => StateMachinePlacesAtMostOne ]_vars

\* state_machine has placed a File-Data PDU that is not the last one; the
\* holder had the Metadata PDU or the segment before
C24_SegmentPlaced ==
    /\ step = "SENDING_FILE_DATA"
    /\ packet_ready
    /\ pdu_wrapper.pdu_type = "FILE_DATA"
    /\ pdu_wrapper.offset + Len(pdu_wrapper.file_data) = fp.offset
    /\ fp.offset < fp.size
    /\ result = Outcome("ok", "-")

\* the add_remote_entity calls made so far for the id, in order
AddCallsFor(id) ==
    SelectSeq(mib_calls, LAMBDA call : /\ call.op = "add_remote_entity"
                                       /\ call.arg.remote_entity_id = id)

\* the first configuration the host has added for the id, None if it has
\* added none
FirstAdded(id) ==
    IF AddCallsFor(id) = << >> THEN None ELSE Head(AddCallsFor(id)).arg

\* the call the host has made in this step
ThisCall == mib_calls'[Len(mib_calls')]

\* the host has made a call of op in this step
Called(op) ==
    /\ Len(mib_calls') = Len(mib_calls) + 1
    /\ ThisCall.op = op

(* C25: after any sequence of add_remote_entity calls the table holds at most
   one configuration per remote_entity_id; add_remote_entity returns true
   when the id was absent, and false, leaving the table unchanged, when it
   was present; get_remote_entity returns the first configuration added for
   an id and nothing for an id never added. *)
C25_TableKeyUniqueness ==
    /\ [](\A i, j \in 1..Len(remote_entity_dict) :
             remote_entity_dict[i].key = remote_entity_dict[j].key => i = j)
    /\ [](\A id \in TableIds : get_remote_entity(remote_entity_dict, id) = FirstAdded(id))
    /\ [][ /\ Called("add_remote_entity") =>
                  /\ ThisCall.returned =
                         ~dict_contains(remote_entity_dict, ThisCall.arg.remote_entity_id)
                  /\ ~ThisCall.returned => remote_entity_dict' = remote_entity_dict
                  /\ ThisCall.returned =>
                         remote_entity_dict' =
                             Append(remote_entity_dict,
                                    [key |-> ThisCall.arg.remote_entity_id,
                                     value |-> ThisCall.arg])
           /\ Called("get_remote_entity") =>
                  /\ ThisCall.returned = FirstAdded(ThisCall.arg)
                  /\ remote_entity_dict' = remote_entity_dict ]_vars

\* a second configuration for an id was refused, a look-up of the id has then
\* returned the first one, and a look-up of an id never added has returned
\* nothing
C25_DuplicateRefused ==
    /\ Len(mib_calls) = 4
    /\ mib_calls[1].op = "add_remote_entity" /\ mib_calls[1].returned = TRUE
    /\ mib_calls[2].op = "add_remote_entity" /\ mib_calls[2].returned = FALSE
    /\ mib_calls[2].arg # mib_calls[1].arg
    /\ mib_calls[3].op = "get_remote_entity"
    /\ mib_calls[3].arg = mib_calls[1].arg.remote_entity_id
    /\ mib_calls[3].returned = mib_calls[1].arg
    /\ mib_calls[4].op = "get_remote_entity"
    /\ mib_calls[4].returned = None
    /\ Len(remote_entity_dict) = 1

\* the source handler's parameters (TransferFieldWrapper) with state and step
SourceStateStepParams == <<state, step, fp, transaction, remote_cfg, pdu_conf>>

\* the table has an entry for the destination of the Put request of this call
DestinationKnown == dict_contains(remote_entity_dict, ThisCall.arg.destination_id)

(* C26: CfdpHandler.start_put_request starts a source transaction exactly
   when the source handler is idle and the table has an entry for the
   request's destination id; it raises BusyError when a transaction is in
   progress and NoRemoteEntityCfgFound when the destination has no entry, and
   in both failure cases nothing is started and the source handler's state,
   step and parameters are unchanged. *)
C26_StartPutRequest ==
    [][ Called("start_put_request") =>
            /\ state = "IDLE" /\ DestinationKnown =>
                   /\ ThisCall.returned = "None"
                   /\ state' = "BUSY_CLASS_1_NACKED"
                   /\ current_req' = ThisCall.arg
                   /\ remote_cfg' = get_remote_entity(remote_entity_dict,
                                                      ThisCall.arg.destination_id)
            /\ state # "IDLE" =>
                   /\ ThisCall.returned = "BusyError"
                   /\ UNCHANGED SourceStateStepParams
            /\ state = "IDLE" /\ ~DestinationKnown =>
                   /\ ThisCall.returned = "NoRemoteEntityCfgFound"
                   /\ UNCHANGED SourceStateStepParams ]_vars

\* what the code does instead: every start_put_request raises BusyError and
\* leaves the source handler, the request wrapper and the table as they were
C26_AlwaysBusyError ==
    [][ Called("start_put_request") =>
            /\ ThisCall.returned = "BusyError"
            /\ result' = Outcome("BusyError", "start_put_request")
            /\ UNCHANGED <<srcVars, request_wrapper, remote_entity_dict>> ]_vars

\* the source handler is idle, the table has an entry for the destination, and
\* start_put_request has raised BusyError
C26_BusyErrorWhileIdle ==
    /\ mib_calls # << >>
    /\ mib_calls[Len(mib_calls)].op = "start_put_request"
    /\ mib_calls[Len(mib_calls)].returned = "BusyError"
    /\ result = Outcome("BusyError", "start_put_request")
    /\ state = "IDLE"
    /\ step = "IDLE"
    /\ dict_contains(remote_entity_dict, mib_calls[Len(mib_calls)].arg.destination_id)

(* C27: with a source file that does not exist, the state_machine call that
   runs TRANSACTION_START fails with SourceFileDoesNotExist before a sequence
   number is taken, before transaction_indication is raised and before any
   PDU is placed; the handler stays busy, so that start_transaction returns
   false, until the host calls reset(), after which start_transaction returns
   true again. *)
C27_MissingSourceFile ==
    /\ [](~source_file.exists =>
              /\ seq_count = 0
              /\ indications = << >>
              /\ transaction = None
              /\ pdu_wrapper = NoPdu
              /\ ~packet_ready
              /\ fp = FileParamsEmpty)
    /\ [][(~source_file.exists /\ state = "BUSY_CLASS_1_NACKED" /\ StateMachine) =>
              /\ result' = Outcome("SourceFileDoesNotExist", "state_machine")
              /\ state' = "BUSY_CLASS_1_NACKED"
              /\ step' = "TRANSACTION_START"]_vars
    /\ [][(~source_file.exists /\ step = "TRANSACTION_START" /\ C9_Call) =>
              /\ result' = Outcome("False", "-")
              /\ UNCHANGED <<state, step, current_req, remote_cfg>>]_vars
    /\ [][(~source_file.exists /\ step = "TRANSACTION_START" /\ Reset) =>
              /\ state' = "IDLE"
              /\ step' = "IDLE"]_vars
    /\ [][\A wrapper \in PutRequests :
              (~source_file.exists /\ C19_StartCall(wrapper)) =>
                  /\ result' = Outcome("True", "-")
                  /\ state' # "IDLE"]_vars

\* the second transaction on the missing file, started after a reset, has failed
\* in TRANSACTION_START like the first
C27_FailedAtTransactionStart ==
    /\ ~source_file.exists
    /\ started = 2
    /\ result = Outcome("SourceFileDoesNotExist", "state_machine")
    /\ state = "BUSY_CLASS_1_NACKED"
    /\ step = "TRANSACTION_START"
    /\ seq_count = 0
    /\ indications = << >>
    /\ pdu_wrapper = NoPdu

\* the sequence a is the beginning of the sequence b
IsPrefix(a, b) == Len(a) <= Len(b) /\ SubSeq(b, 1, Len(a)) = a

\* the PDUs the receiving host hands over
DestHostPdus == InboundMetadataPdus \cup InboundFileDataPdus \cup InboundEofPdus

\* the DestHandler holds the PDUs it held, with packet at the tail of the
\* File-Data queue or of the list of its directive type, and nothing else
StoredAtTail(packet) ==
    IF packet.pdu_type = "FILE_DATA"
    THEN /\ dest'.file_data_deque = Append(dest.file_data_deque, packet)
         /\ dest'.file_directives_dict = dest.file_directives_dict
    ELSE /\ dest'.file_data_deque = dest.file_data_deque
         /\ dest'.file_directives_dict =
                [dest.file_directives_dict EXCEPT ![packet.pdu_type] = Append(@, packet)]

(* C28: every PDU handed to DestHandler.pass_packet is stored exactly once, a
   File-Data PDU at the tail of the File-Data queue and a file directive at
   the tail of the list of its directive type; no call of the host takes a
   PDU out or reorders the PDUs, so the queue and each list hold their PDUs in
   arrival order; pass_packet changes neither state, step nor packet_ready. *)
C28_DestPassPacket ==
    /\ [][\A packet \in DestHostPdus :
              (DestPdusPassed < MaxDestPdus /\ DestCommit(dest_pass_packet(DCur, packet))) =>
                  /\ StoredAtTail(packet)
                  /\ DestPdusPassed' = DestPdusPassed + 1
                  /\ dest'.state = dest.state
                  /\ dest'.transaction = dest.transaction
                  /\ dest'.packet_ready = dest.packet_ready]_vars
    /\ [][/\ IsPrefix(dest.file_data_deque, dest'.file_data_deque)
          /\ \A t \in DirectiveTypes :
                 IsPrefix(dest.file_directives_dict[t], dest'.file_directives_dict[t])
          /\ DestPdusPassed' # DestPdusPassed => \E packet \in DestHostPdus : StoredAtTail(packet)
         ]_vars

\* in the middle of a transfer the handler holds two different File-Data PDUs
\* and an EOF PDU behind the Metadata PDU that started it
C28_TwoSegmentsQueued ==
    /\ dest.transaction = "RECEIVING_FILE_DATA"
    /\ Len(dest.file_data_deque) = 2
    /\ dest.file_data_deque[1].offset > dest.file_data_deque[2].offset
    /\ Len(dest.file_directives_dict["METADATA"]) = 1
    /\ Len(dest.file_directives_dict["EOF"]) = 1

\* the reads that have asked for the byte at position b of the file
ReadsOfByte(b) == { r \in reads : r.offset <= b /\ b < r.offset + r.read_len }

(* C29: for every file of at least one byte and every segment length of at
   least one the chunked checksum loop terminates (the call returns, which it
   does only with current_offset equal to the file size), has read every byte
   of the file exactly once, and has requested no read of length zero and none
   that reaches past the end of the file.  The offsets of the reads are the
   values of current_offset, which never decreases, so the reads are in
   ascending order. *)
C29_CrcTermination ==
    reads # {} =>
        /\ result = Outcome("ok", "-")
        /\ \A r \in reads :
               /\ r.op = "crc"
               /\ r.read_len >= 1
               /\ r.offset + r.read_len <= Len(source_file.data)
        /\ \A b \in 0..(Len(source_file.data) - 1) : Cardinality(ReadsOfByte(b)) = 1

\* the loop on a file of 4 bytes with segment length 3 has read 3 bytes, then
\* asked for (3 + 3) % 4 = 2 bytes at offset 3, got the one byte that is left,
\* and with current_offset 5 never meets its exit test again
C29_LoopNeverExits ==
    /\ Len(source_file.data) = 4
    /\ mib.max_file_segment_len = 3
    /\ reads = {[op |-> "crc", offset |-> 0, read_len |-> 3],
                [op |-> "crc", offset |-> 3, read_len |-> 2]}
    /\ result = Outcome("NoReturn", "calc_cfdp_file_crc")
    /\ step = "IDLE"

\* the same call with a filestore that refuses to read past the end
C29_ReadPastEndFails ==
    /\ Len(source_file.data) = 4
    /\ mib.max_file_segment_len = 3
    /\ [op |-> "crc", offset |-> 3, read_len |-> 2] \in reads
    /\ result = Outcome("IoError", "calc_cfdp_file_crc")
    /\ step = "IDLE"

\* what holds: the call returns with every byte read exactly once, unless the
\* file is at least as long as a segment and the modulo gives a last chunk of
\* another length than the rest of the file
C29_TerminatesUnlessModuloDiffers ==
    (/\ reads # {}
     /\ \/ Len(source_file.data) < mib.max_file_segment_len
        \/ Len(source_file.data) % mib.max_file_segment_len = 0
        \/ 2 * (Len(source_file.data)
                - (Len(source_file.data) % mib.max_file_segment_len))
           + mib.max_file_segment_len = 2 * Len(source_file.data)) =>
        /\ result = Outcome("ok", "-")
        /\ \A b \in 0..(Len(source_file.data) - 1) : Cardinality(ReadsOfByte(b)) = 1

\* the number of File-Data PDUs the transaction has emitted so far
FileDataEmitted ==
    Cardinality({ i \in 1..Len(emitted) : emitted[i].pdu_type = "FILE_DATA" })

(* C30: the source handler takes exactly one sequence number from the
   provider per transaction, at TRANSACTION_START, and every PDU the
   transaction emits (Metadata, each File-Data, EOF) carries in its header the
   transaction_seq_num of the transaction's TransactionId. *)
C30_SharedSeqNum ==
    /\ seq_count <= started
    /\ transaction # None =>
           /\ seq_count = transaction.seq_num.value + 1
           /\ \A i \in 1..Len(emitted) :
                  emitted[i].pdu_conf.transaction_seq_num = transaction.seq_num

\* what holds: the Metadata PDU carries the number of the TransactionId, every
\* File-Data PDU has taken the next number from the provider and carries it,
\* and the EOF PDU carries the number of the PDU before it
C30_NumberPerFileDataPdu ==
    transaction # None =>
        /\ seq_count = transaction.seq_num.value + 1 + FileDataEmitted
        /\ \A i \in 1..Len(emitted) :
               emitted[i].pdu_conf.transaction_seq_num.value =
                   IF emitted[i].pdu_type = "METADATA" THEN transaction.seq_num.value
                   ELSE IF emitted[i].pdu_type = "FILE_DATA"
                   THEN emitted[i - 1].pdu_conf.transaction_seq_num.value + 1
                   ELSE emitted[i - 1].pdu_conf.transaction_seq_num.value

\* the first transaction on a file of two bytes sent in segments of one byte
\* has emitted its EOF PDU: Metadata with number 0, File-Data with numbers 1 and
\* 2, EOF with number 2, and three numbers taken from the provider
C30_ThreeNumbersUsed ==
    /\ transaction # None
    /\ transaction.seq_num = ByteField(2, 0)
    /\ Len(emitted) = 4
    /\ emitted[1].pdu_type = "METADATA"
    /\ emitted[1].pdu_conf.transaction_seq_num = ByteField(2, 0)
    /\ emitted[2].pdu_type = "FILE_DATA"
    /\ emitted[2].pdu_conf.transaction_seq_num = ByteField(2, 1)
    /\ emitted[3].pdu_type = "FILE_DATA"
    /\ emitted[3].pdu_conf.transaction_seq_num = ByteField(2, 2)
    /\ emitted[4].pdu_type = "EOF"
    /\ emitted[4].pdu_conf.transaction_seq_num = ByteField(2, 2)
    /\ seq_count = 3
    /\ started = 1

\* an EOF PDU is among the PDUs placed in the holder since the transaction
\* was started
EofPlaced == \E i \in 1..Len(emitted) : emitted[i].pdu_type = "EOF"

\* the step becomes NOTICE_OF_COMPLETION, or eof_sent_indication is raised
EofSentRaised ==
    \/ step # "NOTICE_OF_COMPLETION" /\ step' = "NOTICE_OF_COMPLETION"
    \/ /\ Len(indications') = Len(indications) + 1
       /\ indications'[Len(indications')].name = "eof_sent_indication"

(* C31: under any sequence of host calls the source handler raises
   eof_sent_indication and enters NOTICE_OF_COMPLETION only after an EOF PDU of
   the current transaction has been placed in the holder and confirmed: at
   that moment the holder has the EOF PDU, which is confirmed, and
   afterwards the EOF PDU is on the record of the transaction. *)
C31_EofBeforeEofSent ==
    /\ []((step = "NOTICE_OF_COMPLETION" \/ Indicated("eof_sent_indication"))
             => EofPlaced)
    /\ [][ EofSentRaised =>
              /\ EofPlaced
              /\ pdu_wrapper.pdu_type = "EOF"
              /\ pdu_wrapper = emitted[Len(emitted)]
              /\ ~packet_ready' ]_vars

\* what advance_fsm does: NOTICE_OF_COMPLETION is entered, and
\* eof_sent_indication raised, by an advance_fsm call in step SENDING_EOF that
\* finds packet_ready false, whatever is in the holder
C31_FromSendingEof ==
    [][ EofSentRaised =>
           /\ step = "SENDING_EOF"
           /\ ~packet_ready'
           /\ AdvanceFsm \/ ConfirmPacketSentAdvanceFsm
           /\ step' = "NOTICE_OF_COMPLETION"
           /\ indications' = Append(indications, [name |-> "eof_sent_indication",
                                                  transaction_id |-> transaction])
           /\ result'.outcome = "ok" ]_vars

\* eof_sent_indication was raised by the second of two advance_fsm calls after
\* the last File-Data PDU of a two byte file: no EOF PDU was ever placed
C31_EofSentWithoutEof ==
    /\ step = "NOTICE_OF_COMPLETION"
    /\ state = "BUSY_CLASS_1_NACKED"
    /\ Indicated("eof_sent_indication")
    /\ Len(emitted) = 3
    /\ pdu_wrapper.pdu_type = "FILE_DATA"
    /\ fp.offset = 2 /\ fp.size = 2
    /\ ~EofPlaced

\* the number of transaction_indication in a sequence of indications
TransactionIndications(ind) ==
    Cardinality({ i \in 1..Len(ind) : ind[i].name = "transaction_indication" })

\* the steps of a Class 1 transaction that come after TRANSACTION_START
StepsAfterStart ==
    {"CRC_PROCEDURE", "SENDING_METADATA", "SENDING_FILE_DATA", "SENDING_EOF",
     "NOTICE_OF_COMPLETION"}

\* a call raises transaction_indication
TransactionIndicationRaised ==
    TransactionIndications(indications') > TransactionIndications(indications)

(* C32: transaction_indication is raised exactly once per started Class 1
   transaction: not before TRANSACTION_START, once when the step has passed
   it, by a state_machine call that finds no PDU waiting and places the
   Metadata PDU, if at all, with the number of the indication.  It carries
   the TransactionId of the local entity id the handler has in that call and
   the number the provider hands out in it, which every later indication of
   the transaction carries, whatever source_id the host assigns afterwards;
   a state_machine call in a later step, such as the retry of a call that
   failed there, does not raise it again. *)
C32_TransactionIndicationOnce ==
    /\ [](/\ TransactionIndications(indications) <= 1
          /\ \A i \in 1..Len(indications) :
                 /\ indications[1].name = "transaction_indication"
                 /\ indications[i].transaction_id = indications[1].transaction_id
          /\ state = "BUSY_CLASS_1_NACKED" =>
                 IF step \in StepsAfterStart
                 THEN /\ TransactionIndications(indications) = 1
                      /\ indications[1].transaction_id = transaction
                 ELSE indications = << >>)
    /\ [][ TransactionIndicationRaised =>
              /\ state = "BUSY_CLASS_1_NACKED"
              /\ step \in {"IDLE", "TRANSACTION_START"}
              /\ ~packet_ready
              /\ result'.raised_in \in {"-", "state_machine"}
              /\ indications = << >>
              /\ indications'[1] =
                     [name |-> "transaction_indication",
                      transaction_id |->
                          [source_entity_id |-> local_entity_id,
                           seq_num |-> ByteField(max_bit_width \div 8, seq_count)]]
              /\ seq_count' > seq_count
              /\ packet_ready' =>
                     /\ pdu_wrapper'.pdu_type = "METADATA"
                     /\ pdu_wrapper'.pdu_conf.transaction_seq_num =
                            indications'[1].transaction_id.seq_num ]_vars

\* state_machine has raised transaction_indication and then failed in
\* CRC_PROCEDURE, and the host has assigned another source_id since; the
\* retry fails there again and raises nothing
C32_RetryAfterFailure ==
    /\ state = "BUSY_CLASS_1_NACKED"
    /\ step = "CRC_PROCEDURE"
    /\ indications[1].transaction_id = transaction
    /\ transaction.source_entity_id # local_entity_id
    /\ result = Outcome("ChecksumNotImplemented", "state_machine")
    /\ TransactionIndications(indications) = 1
    /\ seq_count = 1
    /\ ENABLED (/\ RecordedStateMachine
                /\ result' = Outcome("ChecksumNotImplemented", "state_machine")
                /\ indications' = indications)

\* the receiving host calls state_machine on the idle DestHandler
DestIdleCall == dest.state = "IDLE" /\ DestHostStateMachine

\* metadata_recv_indication as _start_transaction raises it for a Metadata PDU
MetadataRecv(m) ==
    [name |-> "metadata_recv_indication",
     transaction_id |-> [source_entity_id |-> m.pdu_conf.source_entity_id,
                         seq_num |-> m.pdu_conf.transaction_seq_num],
     file_size |-> m.file_size, source_id |-> m.pdu_conf.source_entity_id,
     dest_file_name |-> m.dest_file_name, source_file_name |-> m.source_file_name]

(* C33: Destination start.  A state_machine call on the idle DestHandler with
   no Metadata PDU pending changes nothing: state, step and the filestore stay
   as they are and nothing is raised, also with File-Data or EOF PDUs queued.
   With a Metadata PDU pending it accepts the first one: the state becomes
   BUSY_CLASS_1_NACKED for UNACKNOWLEDGED and BUSY_CLASS_2_ACKED otherwise, the
   step RECEIVING_FILE_DATA, the destination file name, file size, checksum
   type and closure flag are those of the Metadata PDU, and
   metadata_recv_indication is raised exactly once. *)
C33_DestStart ==
    [][ DestIdleCall =>
          IF dest.file_directives_dict["METADATA"] = << >>
          THEN UNCHANGED <<dest, dest_file, dest_indications>>
          ELSE LET m == Head(dest.file_directives_dict["METADATA"])
               IN  /\ dest'.state = IF m.pdu_conf.trans_mode = "UNACKNOWLEDGED"
                                    THEN "BUSY_CLASS_1_NACKED" ELSE "BUSY_CLASS_2_ACKED"
                   /\ dest'.transaction = "RECEIVING_FILE_DATA"
                   /\ dest'.fp.file_name = m.dest_file_name
                   /\ dest'.fp.size = m.file_size
                   /\ dest'.checksum_type = m.checksum_type
                   /\ dest'.closure_requested = m.closure_requested
                   /\ dest_indications' = Append(dest_indications, MetadataRecv(m))
                   /\ dest_file' = dest_file ]_vars

\* the DestHandler has accepted the Metadata PDU of an acknowledged transfer
\* of the empty file /other with closure requested, the second Metadata PDU
\* was not looked at, and File-Data and EOF PDUs are queued
C33_Class2Accepted ==
    /\ dest.state = "BUSY_CLASS_2_ACKED"
    /\ dest.transaction = "RECEIVING_FILE_DATA"
    /\ dest.fp.file_name = "/other" /\ dest.fp.size = 0
    /\ dest.checksum_type = "NULL_CHECKSUM"
    /\ dest.closure_requested
    /\ Len(dest.file_directives_dict["METADATA"]) = 2
    /\ Len(dest_indications) = 1
    /\ dest.file_data_deque # << >>
    /\ dest.file_directives_dict["EOF"] # << >>
    /\ ~dest_file.exists

\* the EOF PDUs of a list that announce no error
NoErrorEofs(pdus) == SelectSeq(pdus, LAMBDA p : p.condition_code = "NO_ERROR")

\* _handle_eof_pdu called for an EOF PDU on the DestHandler as it is, in
\* RECEIVING_FILE_DATA of a Class 1 transaction: with NO_ERROR the checksum
\* and size of the PDU are recorded and the step is TRANSFER_COMPLETION, with
\* another condition code the handler is as before
HandleEofPdu(eof_pdu) ==
    LET d == dest_handle_eof_pdu(DCur, eof_pdu, dest_indication_cfg)
    IN  IF eof_pdu.condition_code = "NO_ERROR"
        THEN /\ d.h.fp.crc32 = eof_pdu.file_checksum
             /\ d.h.fp.size = eof_pdu.file_size
             /\ d.h.transaction = "TRANSFER_COMPLETION"
        ELSE /\ d.h = dest
             /\ d.file = dest_file

(* C34: Destination EOF handling.  In RECEIVING_FILE_DATA of a Class 1
   transaction an EOF PDU with condition NO_ERROR makes the handler record the
   checksum and file size of the PDU and leave RECEIVING_FILE_DATA for
   TRANSFER_COMPLETION, an EOF PDU with another condition code changes neither
   the recorded checksum and size nor the step, and a state_machine call made
   while no EOF PDU with NO_ERROR has arrived leaves the step, the checksum
   and the size as they are; the call that finds one records the last one's
   checksum and size and leaves the step past TRANSFER_COMPLETION. *)
C34_DestEofHandling ==
    /\ []((dest.state = "BUSY_CLASS_1_NACKED" /\ dest.transaction = "RECEIVING_FILE_DATA")
             => \A eof_pdu \in InboundEofPdus : HandleEofPdu(eof_pdu))
    /\ [][ DestReceivingCall =>
              LET eofs == NoErrorEofs(dest.file_directives_dict["EOF"])
              IN  IF eofs = << >>
                  THEN /\ dest'.transaction = "RECEIVING_FILE_DATA"
                       /\ dest'.fp.crc32 = dest.fp.crc32
                       /\ dest'.fp.size = dest.fp.size
                  ELSE /\ dest'.transaction = "SENDING_FINISHED_PDU"
                       /\ dest'.fp.crc32 = eofs[Len(eofs)].file_checksum
                       /\ dest'.fp.size = eofs[Len(eofs)].file_size ]_vars

\* the DestHandler of a transfer announced with 0 bytes has been handed the
\* EOF PDU of a cancelled transfer and then an EOF PDU with NO_ERROR for 2
\* bytes: it has recorded the checksum and size of the second and left
\* RECEIVING_FILE_DATA
C34_EofRecorded ==
    /\ dest.state = "BUSY_CLASS_1_NACKED"
    /\ dest.fp.file_name = "/other"
    /\ Len(dest.file_directives_dict["EOF"]) = 2
    /\ dest.file_directives_dict["EOF"][1].condition_code = "CANCEL_REQUEST_RECEIVED"
    /\ dest.file_directives_dict["EOF"][2].condition_code = "NO_ERROR"
    /\ dest.fp.crc32 = ChecksumOf("CRC_32", <<255, 255>>)
    /\ dest.fp.size = 2
    /\ dest.transaction = "SENDING_FINISHED_PDU"

\* the number of eof_recv_indication in a sequence of indications
EofReports(ind) ==
    Cardinality({ i \in 1..Len(ind) : ind[i].name = "eof_recv_indication" })

(* C35: Destination optional indications.  file_segment_recv_indication is
   raised for a File-Data PDU if and only if
   indication_cfg.file_segment_recvd_indication_required is true, by the
   state_machine call that writes the PDU's data; eof_recv_indication is
   raised if and only if indication_cfg.eof_recv_indication_required is true
   and an EOF PDU with condition NO_ERROR is accepted, and at most once per
   transaction even when several EOF PDUs were passed. *)
C35_DestOptionalIndications ==
    /\ [](/\ ~dest_indication_cfg.file_segment_recvd_indication_required
               => SegmentReports(dest_indications) = 0
          /\ ~dest_indication_cfg.eof_recv_indication_required
               => EofReports(dest_indications) = 0
          /\ EofReports(dest_indications) <= 1)
    /\ [][ DestReceivingCall =>
              /\ dest_indication_cfg.file_segment_recvd_indication_required =>
                     SegmentReports(RaisedByCall) = Len(dest.file_data_deque)
              /\ dest_file' = WrittenAll(dest_file, dest.file_data_deque)
              /\ (/\ dest_indication_cfg.eof_recv_indication_required
                  /\ NoErrorEofs(dest.file_directives_dict["EOF"]) # << >>)
                     <=> EofReports(RaisedByCall) >= 1 ]_vars

\* what the code does: a state_machine call in RECEIVING_FILE_DATA raises, when
\* required, one file_segment_recv_indication for every File-Data PDU of the
\* queue and one eof_recv_indication for every EOF PDU with NO_ERROR handed
\* over so far; without the flags, and in every other call, none
C35_IndicationPerPdu ==
    /\ [](/\ ~dest_indication_cfg.file_segment_recvd_indication_required
               => SegmentReports(dest_indications) = 0
          /\ ~dest_indication_cfg.eof_recv_indication_required
               => EofReports(dest_indications) = 0)
    /\ [][ IF DestReceivingCall
           THEN /\ SegmentReports(RaisedByCall) =
                       IF dest_indication_cfg.file_segment_recvd_indication_required
                       THEN Len(dest.file_data_deque) ELSE 0
                /\ EofReports(RaisedByCall) =
                       IF dest_indication_cfg.eof_recv_indication_required
                       THEN Len(NoErrorEofs(dest.file_directives_dict["EOF"])) ELSE 0
                /\ dest_file' = WrittenAll(dest_file, dest.file_data_deque)
           ELSE /\ SegmentReports(dest_indications') = SegmentReports(dest_indications)
                /\ EofReports(dest_indications') = EofReports(dest_indications) ]_vars

\* two EOF PDUs with NO_ERROR were handed over before the state_machine call
\* that accepted them: the user has got eof_recv_indication twice in one
\* transaction
C35_EofRecvTwice ==
    /\ dest_indication_cfg.eof_recv_indication_required
    /\ dest.state = "BUSY_CLASS_1_NACKED"
    /\ dest.transaction = "SENDING_FINISHED_PDU"
    /\ Len(dest.file_directives_dict["METADATA"]) = 1
    /\ Len(dest.file_directives_dict["EOF"]) = 2
    /\ EofReports(dest_indications) = 2
    /\ dest_indications[2].transaction_id = dest_indications[3].transaction_id

\* the type of PDU that state_machine places in a step
PduTypeOfStep ==
    [s \in {"SENDING_METADATA", "SENDING_FILE_DATA", "SENDING_EOF"} |->
        IF s = "SENDING_METADATA" THEN "METADATA"
        ELSE IF s = "SENDING_FILE_DATA" THEN "FILE_DATA" ELSE "EOF"]

(* C36: Holder matches step.  In every reachable state of the source handler
   in which packet_ready is true the holder contains a PDU, the step is
   SENDING_METADATA, SENDING_FILE_DATA or SENDING_EOF, and the PDU is of the
   type of the step: Metadata, File-Data or EOF. *)
C36_HolderMatchesStep ==
    packet_ready =>
        /\ pdu_wrapper # NoPdu
        /\ step \in DOMAIN PduTypeOfStep
        /\ pdu_wrapper.pdu_type = PduTypeOfStep[step]

\* what the code guarantees: with packet_ready true the holder contains a
\* PDU, and at the moment packet_ready becomes true the PDU is of the type of
\* the step
C36_MatchesWhenPlaced ==
    /\ [](packet_ready => pdu_wrapper # NoPdu)
    /\ [][ PacketReadySet =>
              /\ step' \in DOMAIN PduTypeOfStep
              /\ pdu_wrapper'.pdu_type = PduTypeOfStep[step'] ]_vars

\* state_machine was called with the last File-Data PDU unconfirmed: it has
\* set the step to SENDING_EOF and failed; the holder still has the File-Data
\* PDU and packet_ready is true
C36_FileDataInSendingEof ==
    /\ state = "BUSY_CLASS_1_NACKED"
    /\ step = "SENDING_EOF"
    /\ packet_ready
    /\ pdu_wrapper.pdu_type = "FILE_DATA"
    /\ pdu_wrapper.offset + Len(pdu_wrapper.file_data) = fp.size
    /\ result = Outcome("PacketSendNotConfirmed", "state_machine")

\* the source entity ids in the headers of the PDUs on the record
EmittedSourceIds ==
    { emitted[i].pdu_conf.source_entity_id : i \in 1..Len(emitted) }

(* C37: Source entity id across transactions.  Every PDU the source handler
   emits, in its first transaction and in every transaction started after a
   reset, carries in its header a source_entity_id equal to the handler's
   local entity id, which is also the source entity id of the transaction's
   TransactionId. *)
C37_SourceEntityId ==
    /\ EmittedSourceIds \subseteq {local_entity_id}
    /\ transaction # None => transaction.source_entity_id = local_entity_id

\* what the code does: the TransactionId gets the local entity id the handler
\* has when the transaction starts; every PDU gets the source entity id the
\* handler's PduConfig has when the PDU is placed; that id is the local
\* entity id from construction to the first reset, and after a reset that of
\* PduConfig.empty() until the host assigns source_id again
C37_IdLostAtReset ==
    /\ [][ (transaction' # transaction /\ transaction' # None) =>
              transaction'.source_entity_id = local_entity_id ]_vars
    /\ [][ Len(emitted') > Len(emitted) =>
              emitted'[Len(emitted')].pdu_conf.source_entity_id =
                  pdu_conf.source_entity_id ]_vars
    /\ [][ pdu_conf'.source_entity_id # pdu_conf.source_entity_id =>
              \/ pdu_conf' = PduConfigEmpty /\ state' = "IDLE"
              \/ /\ pdu_conf'.source_entity_id = local_entity_id'
                 /\ local_entity_id' \in SourceIds
                 /\ SetSourceId ]_vars
    /\ [][ local_entity_id' # local_entity_id =>
              pdu_conf'.source_entity_id = local_entity_id' ]_vars
    /\ [][ (started = 0 /\ pdu_conf.source_entity_id = local_entity_id
                /\ pdu_conf'.source_entity_id # local_entity_id') =>
              state' = "IDLE" /\ pdu_conf' = PduConfigEmpty ]_vars

\* the second transaction of the handler, started after the first was
\* finished, has emitted its PDUs up to the EOF PDU: all carry the source
\* entity id of PduConfig.empty(), the TransactionId has the local entity id
\* the handler was constructed with
C37_SecondTransactionEmptyId ==
    /\ started = 2
    /\ local_entity_id = ByteField(2, 1)
    /\ state = "BUSY_CLASS_1_NACKED"
    /\ transaction # None
    /\ transaction.source_entity_id = local_entity_id
    /\ Len(emitted) >= 3
    /\ emitted[Len(emitted)].pdu_type = "EOF"
    /\ EmittedSourceIds = {PduConfigEmpty.source_entity_id}
    /\ local_entity_id # PduConfigEmpty.source_entity_id

\* advance_fsm called on the idle handler
AdvanceFsmOnIdle == state = "IDLE" /\ AdvanceFsm

(* C38: No pending packet when idle.  In every reachable state of the source
   handler with state IDLE packet_ready is false, and advance_fsm on the idle
   handler never fails with PacketSendNotConfirmed. *)
C38_NoPendingWhenIdle ==
    /\ [](state = "IDLE" => ~packet_ready)
    /\ [][ AdvanceFsmOnIdle => result'.outcome # "PacketSendNotConfirmed" ]_vars

\* what the code guarantees: the handler becomes idle with packet_ready true
\* only by a reset() called while a PDU awaits confirmation, and stays so
\* until confirm_packet_sent or start_transaction
C38_PendingOnlyByReset ==
    [][ (state' = "IDLE" /\ packet_ready') =>
           /\ packet_ready
           /\ pdu_wrapper' # NoPdu
           /\ state = "IDLE" \/ Reset ]_vars

\* reset() was called with the Metadata PDU unconfirmed, and advance_fsm on
\* the idle handler has failed with PacketSendNotConfirmed
C38_IdleAdvanceRefused ==
    /\ state = "IDLE"
    /\ step = "IDLE"
    /\ packet_ready
    /\ pdu_wrapper.pdu_type = "METADATA"
    /\ transaction = None
    /\ result = Outcome("PacketSendNotConfirmed", "advance_fsm")

\* the number of metadata_recv_indication in a sequence of indications
MetadataReports(ind) ==
    Cardinality({ i \in 1..Len(ind) : ind[i].name = "metadata_recv_indication" })

\* what the DestHandler has recorded of the transaction it runs
DestTransaction ==
    <<dest.state, dest.transaction_id, dest.fp.file_name, dest.checksum_type,
      dest.closure_requested>>

\* a Metadata PDU is handed to pass_packet
MetadataPassed ==
    /\ Len(dest'.file_directives_dict["METADATA"]) =
           Len(dest.file_directives_dict["METADATA"]) + 1
    /\ StartPassPacket

(* C39: Destination handles one transaction at a time.  While the DestHandler
   is not idle a further Metadata PDU handed to pass_packet is stored and
   changes nothing else, and no later call restarts or alters the running
   transaction because of it: state, transaction id, destination file name,
   checksum type and closure flag stay those of the Metadata PDU that was
   accepted, the file size stays until an EOF PDU is recorded, the step is
   changed only by the EOF PDU, and metadata_recv_indication is not raised a
   second time. *)
C39_OneTransactionAtATime ==
    /\ [](dest.state # "IDLE" =>
             LET m == Head(dest.file_directives_dict["METADATA"])
             IN  /\ dest.transaction_id = MetadataRecv(m).transaction_id
                 /\ dest.fp.file_name = m.dest_file_name
                 /\ dest.checksum_type = m.checksum_type
                 /\ dest.closure_requested = m.closure_requested
                 /\ dest.fp.crc32 = << >> =>
                        dest.fp.size = m.file_size /\ dest.transaction = "RECEIVING_FILE_DATA"
                 /\ MetadataReports(dest_indications) = 1)
    /\ [][ dest.state # "IDLE" =>
              /\ DestTransaction' = DestTransaction
              /\ MetadataReports(dest_indications') = MetadataReports(dest_indications)
              /\ MetadataPassed =>
                     /\ dest'.transaction = dest.transaction
                     /\ dest'.fp = dest.fp
                     /\ dest'.file_data_deque = dest.file_data_deque
                     /\ dest'.file_directives_dict["EOF"] = dest.file_directives_dict["EOF"]
                     /\ UNCHANGED <<dest_file, dest_indications>> ]_vars

\* the DestHandler runs the unacknowledged transfer of /dst and holds a second
\* Metadata PDU, of an acknowledged transfer of /other with closure; it has
\* written file data and raised metadata_recv_indication once
C39_SecondMetadataIgnored ==
    /\ dest.state = "BUSY_CLASS_1_NACKED"
    /\ dest.transaction = "RECEIVING_FILE_DATA"
    /\ Len(dest.file_directives_dict["METADATA"]) = 2
    /\ dest.file_directives_dict["METADATA"][2].dest_file_name = "/other"
    /\ dest.file_directives_dict["METADATA"][2].pdu_conf.trans_mode = "ACKNOWLEDGED"
    /\ dest.file_directives_dict["METADATA"][2].closure_requested
    /\ dest.fp.file_name = "/dst"
    /\ ~dest.closure_requested
    /\ dest_file.exists
    /\ MetadataReports(dest_indications) = 1
    /\ Len(dest_indications) = 1

\* the DestHandler has accepted an EOF PDU and left RECEIVING_FILE_DATA
DestEofAccepted ==
    /\ dest.state # "IDLE"
    /\ dest.transaction # "RECEIVING_FILE_DATA"
    /\ dest.fp.crc32 # << >>

(* C40: No writes after EOF.  Once the DestHandler has accepted an EOF PDU and
   left RECEIVING_FILE_DATA, no pass_packet or state_machine call writes to
   the filestore or raises file_segment_recv_indication, and the handler does
   not return to RECEIVING_FILE_DATA: File-Data PDUs that arrive after that
   point are queued and leave the destination file unchanged. *)
C40_NoWritesAfterEof ==
    /\ [](dest.transaction \notin {"IDLE", "RECEIVING_FILE_DATA"} => DestEofAccepted)
    /\ [][ DestEofAccepted =>
              /\ dest_file' = dest_file
              /\ SegmentReports(dest_indications') = SegmentReports(dest_indications)
              /\ DestEofAccepted' ]_vars

\* after the EOF PDU was accepted with nothing written, a File-Data PDU has
\* arrived and is in the queue; the destination file does not exist, and a
\* further state_machine call changes nothing
C40_LateFileData ==
    /\ DestEofAccepted
    /\ dest.transaction = "SENDING_FINISHED_PDU"
    /\ dest_indication_cfg.file_segment_recvd_indication_required
    /\ Len(dest.file_data_deque) = 1
    /\ ~dest_file.exists
    /\ SegmentReports(dest_indications) = 0
    /\ ENABLED (DestHostStateMachine /\ UNCHANGED vars)

====
